---------------------------- MODULE Spec2Model ----------------------------
(***************************************************************************)
(* A model of the tournament core of tceccutechess: the maximum-cardinality *)
(* matcher (graph_blossom.h), the Swiss / round-robin / knockout pairing    *)
(* schedulers, the tournament controller (tournament.cpp), the game driver  *)
(* (chessgame.cpp, chessplayer.cpp) and the adjudicator                     *)
(* (gameadjudicator.cpp).                                                   *)
(***************************************************************************)
EXTENDS Integers, Sequences, FiniteSets, TLC

VARIABLES
    bgraph,      \* graph_blossom: the DenseGraph handed to findMaximumMatching
    bmatching,   \* graph_blossom: the MatchEdgeMap of findMaximumMatching
    bphase,      \* graph_blossom: position in findMaximumMatching
    baugments,   \* graph_blossom: number of augmentations done so far
    bassert,     \* graph_blossom: a Q_ASSERT / std::out_of_range was hit
    cfg,         \* the tournament's settings, fixed before start()
    tour,        \* the Tournament object: its members, connections and outputs
    gm,          \* the GameManager: the games it holds
    hist,        \* history: what was played, what was asked of the tournament
    adj,         \* a GameAdjudicator fed with evaluations, and the board it sees
    chessGame    \* a ChessGame: its members, its players, its PgnGame

bvars == <<bgraph, bmatching, bphase, baugments, bassert>>

tvars == <<cfg, tour, gm, hist>>

gvars == <<adj, chessGame>>

vars == <<bgraph, bmatching, bphase, baugments, bassert, cfg, tour, gm, hist,
          adj, chessGame>>

-----------------------------------------------------------------------------
(* Bounds *)

MaxVertices == 4

\* The tournaments run: up to MaxPlayers players, stop() called from outside up
\* to MaxStopCalls times, up to MaxGames games started in a run, up to
\* MaxRounds rounds of a Swiss tournament, up to MaxResume finished games in
\* the file a run is resumed from.
MaxPlayers == 3
MaxStopCalls == 2
MaxGames == 6
MaxRounds == 4
MaxResume == 3

-----------------------------------------------------------------------------
(* Generic helpers *)

\* F applied to value, with value computed once and bound before F is entered.
Strict(value, F(_)) == CHOOSE r \in {F(x) : x \in {value}} : TRUE

Min(S) == CHOOSE x \in S : \A y \in S : x <= y
Max(S) == CHOOSE x \in S : \A y \in S : x >= y

RECURSIVE SetToSeq(_)
SetToSeq(S) ==
    IF S = {} THEN <<>>
    ELSE Strict(Min(S), LAMBDA x : <<x>> \o Strict(S \ {x}, LAMBDA T : SetToSeq(T)))

-----------------------------------------------------------------------------
(* graph_blossom.h *)

NoVertex == -1

\* The value standing for an aborted search: a failed Q_ASSERT or a thrown
\* std::out_of_range (matching.at) inside findAugmentingPath / liftPath.
FailedPath == <<NoVertex>>

Vertices(n) == 0 .. (n - 1)

AllEdges(n) == {{i, j} : i, j \in Vertices(n)} \ {{i} : i \in Vertices(n)}

\* DenseGraph::containsEdge on the upper-triangle bitmap.
containsEdge(E, v0, v1) == {v0, v1} \in E

EmptyMatching(n) == [v \in Vertices(n) |-> NoVertex]

\* findMaximumMatching, the trivial initial matching (lines 531-549).
RECURSIVE initialMatching(_, _, _, _)
initialMatching(n, E, i, m) ==
    IF i >= n THEN m
    ELSE IF m[i] # NoVertex THEN initialMatching(n, E, i + 1, m)
    ELSE LET cand == {j \in (i + 1) .. (n - 1) : m[j] = NoVertex /\ containsEdge(E, i, j)}
         IN IF cand = {} THEN initialMatching(n, E, i + 1, m)
            ELSE Strict([m EXCEPT ![i] = Min(cand), ![Min(cand)] = i],
                        LAMBDA m2 : initialMatching(n, E, i + 1, m2))

ForestNode(parent, dist) == [parent |-> parent, dist |-> dist]

\* forestNodes after addExposedVerticesAsForestRoots.
addExposedVerticesAsForestRoots(n, m) ==
    [v \in Vertices(n) |->
        IF m[v] = NoVertex THEN ForestNode(NoVertex, 0) ELSE ForestNode(NoVertex, -1)]

\* unmarkedForestVertices after addExposedVerticesAsForestRoots.
exposedQueue(n, m) == SetToSeq({v \in Vertices(n) : m[v] = NoVertex})

removeMatchedEdges(E, m) ==
    E \ {{v, m[v]} : v \in {u \in DOMAIN m : m[u] # NoVertex /\ u < m[u]}}

RECURSIVE getForestRoot(_, _)
getForestRoot(forest, x) ==
    IF forest[x].parent = NoVertex THEN x ELSE getForestRoot(forest, forest[x].parent)

RECURSIVE findClosestSharedParent(_, _, _)
findClosestSharedParent(forest, x, y) ==
    IF x = y THEN x
    ELSE IF forest[x].dist >= forest[y].dist
         THEN findClosestSharedParent(forest, forest[x].parent, y)
         ELSE findClosestSharedParent(forest, x, forest[y].parent)

\* The k-th parent of x in the forest.
RECURSIVE ancestor(_, _, _)
ancestor(forest, x, k) == IF k = 0 THEN x ELSE ancestor(forest, forest[x].parent, k - 1)

\* The vertices from x up to, not including, p.
RECURSIVE pathBelow(_, _, _)
pathBelow(forest, x, p) ==
    IF x = p THEN {} ELSE {x} \cup pathBelow(forest, forest[x].parent, p)

\* contractGraph, the edges: every edge with an end in the blossom is removed,
\* and re-inserted towards blossomId when its other end is outside.
contractGraphEdges(E, blossomNodes, blossomId) ==
    {e \in E : e \cap blossomNodes = {}}
    \cup {{blossomId, x} : x \in {y \in UNION E : y \notin blossomNodes
                                    /\ \E b \in blossomNodes : {b, y} \in E}}

\* contractGraph, the matching: erase every blossom node but the root.
contractMatching(m, blossomNodes, blossomId) ==
    [v \in DOMAIN m |-> IF v \in blossomNodes /\ v # blossomId THEN NoVertex ELSE m[v]]

\* liftPath, the blossom unrolled from its root (lines 270-284), indexed from 0.
blossomPathOf(forest, blossomId, v_id, w_id) ==
    LET b_dist == forest[blossomId].dist
        v_dist == forest[v_id].dist
        w_dist == forest[w_id].dist
        size   == v_dist + w_dist - 2 * b_dist + 1
    IN [d \in 0 .. (size - 1) |->
            IF d = 0 THEN blossomId
            ELSE IF d <= v_dist - b_dist
                 THEN ancestor(forest, v_id, (v_dist - b_dist) - d)
                 ELSE ancestor(forest, w_id, d - (v_dist - b_dist + 1))]

\* liftPath, the search for the longest admissible way through the blossom
\* (lines 300-369). sel = <<fromIndex, toIndex, maxPathLen>>.
RECURSIVE longestThrough(_, _, _, _, _, _, _, _)
longestThrough(E, bp, size, i, prevVertex, nextVertex, k, sel) ==
    IF k >= size THEN sel
    ELSE LET pathLen == 1 + (IF k % 2 = 0 THEN k ELSE size - k)
             inner   == prevVertex # NoVertex /\ nextVertex # NoVertex
             ok      == IF inner
                        THEN IF i % 2 = 0
                             THEN containsEdge(E, prevVertex, bp[0])
                                  /\ containsEdge(E, nextVertex, bp[k])
                             ELSE containsEdge(E, prevVertex, bp[k])
                                  /\ containsEdge(E, nextVertex, bp[0])
                        ELSE IF prevVertex = NoVertex
                             THEN containsEdge(E, bp[k], nextVertex)
                             ELSE containsEdge(E, bp[k], prevVertex)
             fromRoot == IF inner THEN i % 2 = 0 ELSE prevVertex = NoVertex
         IN Strict(IF pathLen > sel[3] /\ ok
                   THEN IF fromRoot THEN <<0, k, pathLen>> ELSE <<k, 0, pathLen>>
                   ELSE sel,
                   LAMBDA sel2 : longestThrough(E, bp, size, i, prevVertex, nextVertex,
                                                k + 1, sel2))

\* liftPath, the extraction of the chosen way (lines 376-405).
extractThrough(bp, size, fromIndex, toIndex) ==
    IF fromIndex = 0
    THEN <<bp[0]>> \o (IF toIndex % 2 = 0
                       THEN [j \in 1 .. toIndex |-> bp[j]]
                       ELSE [j \in 1 .. (size - toIndex) |-> bp[size - j]])
    ELSE IF toIndex # 0 THEN FailedPath
    ELSE (IF fromIndex % 2 = 0
          THEN [j \in 1 .. fromIndex |-> bp[fromIndex - j + 1]]
          ELSE [j \in 1 .. (size - fromIndex) |-> bp[fromIndex + j - 1]]) \o <<bp[0]>>

RECURSIVE liftFrom(_, _, _, _, _, _)
liftFrom(cp, blossomId, E, bp, size, i) ==
    IF i >= Len(cp) THEN <<>>
    ELSE LET x_id == cp[i + 1]
             prevVertex == IF i > 0 THEN cp[i] ELSE NoVertex
             nextVertex == IF i + 1 < Len(cp) THEN cp[i + 2] ELSE NoVertex
             sel  == longestThrough(E, bp, size, i, prevVertex, nextVertex, 0,
                                    <<size, size, 0>>)
             seg  == IF x_id # blossomId THEN <<x_id>>
                     ELSE Strict(sel, LAMBDA s : extractThrough(bp, size, s[1], s[2]))
         IN Strict(<<seg, liftFrom(cp, blossomId, E, bp, size, i + 1)>>,
                   LAMBDA sr : IF sr[1] = FailedPath \/ sr[2] = FailedPath
                               THEN FailedPath ELSE sr[1] \o sr[2])

\* The Q_ASSERT closing liftPath: consecutive vertices are joined by an edge.
isWalk(E, path) == \A i \in 1 .. (Len(path) - 1) : containsEdge(E, path[i], path[i + 1])

\* liftPath returning the contracted path as it is, the blossom not unrolled.
liftPath_NoUnroll(contractedPath, blossomId, v_id, w_id, E, forest) == contractedPath

\* liftPath (lines 246-424).
liftPath(contractedPath, blossomId, v_id, w_id, E, forest) ==
    IF contractedPath = FailedPath \/ Len(contractedPath) % 2 # 0 THEN FailedPath
    ELSE Strict(Strict(blossomPathOf(forest, blossomId, v_id, w_id),
                       LAMBDA bp : liftFrom(contractedPath, blossomId, E, bp,
                                            Cardinality(DOMAIN bp), 0)),
                LAMBDA lifted : IF lifted = FailedPath \/ ~isWalk(E, lifted)
                                THEN FailedPath ELSE lifted)

\* The path root(v) .. v of findAugmentingPath (lines 461-463), root first.
RECURSIVE rootPath(_, _)
rootPath(forest, x) ==
    IF forest[x].parent = NoVertex THEN <<x>>
    ELSE rootPath(forest, forest[x].parent) \o <<x>>

\* The path w .. root(w) of findAugmentingPath (lines 465-466), w first.
RECURSIVE pathToRoot(_, _)
pathToRoot(forest, x) ==
    IF forest[x].parent = NoVertex THEN <<x>>
    ELSE <<x>> \o pathToRoot(forest, forest[x].parent)

\* findAugmentingPath (lines 426-524). scanForest is the while loop over
\* unmarkedForestVertices, scanEdges the for loop over w_id inside it, which
\* goes from one unmarked edge of v to the next. st holds the locals
\* forestNodes, unmarkedForestVertices and unmarkedEdges.
RECURSIVE findAugmentingPath(_, _)
RECURSIVE scanForest(_, _, _)
RECURSIVE scanEdges(_, _, _, _, _)
RECURSIVE scanEdge(_, _, _, _, _)
RECURSIVE contractAndLift(_, _, _, _, _, _)

SearchState(forest, queue, unmarkedEdges) ==
    [forest |-> forest, queue |-> queue, unmarkedEdges |-> unmarkedEdges]

findAugmentingPath(n, g) ==
    scanForest(n, g,
               SearchState(addExposedVerticesAsForestRoots(n, g.m), exposedQueue(n, g.m),
                           removeMatchedEdges(g.E, g.m)))

scanForest(n, g, st) ==
    IF st.queue = <<>> THEN <<>>
    ELSE Strict([st EXCEPT !.queue = Tail(st.queue)],
                LAMBDA st2 : scanEdges(n, g, st2, Head(st.queue), 0))

scanEdges(n, g, st, v_id, w_from) ==
    LET forest == st.forest
        ws == {w \in w_from .. (n - 1) : containsEdge(st.unmarkedEdges, v_id, w)}
    IN IF ws = {} THEN scanForest(n, g, st)
       ELSE Strict(Min(ws), LAMBDA w_id : scanEdge(n, g, st, v_id, w_id))

\* The body of the for loop for an unmarked edge (v, w).
scanEdge(n, g, st, v_id, w_id) ==
    LET forest == st.forest
        marked == st.unmarkedEdges \ {{v_id, w_id}}
    IN IF forest[w_id].dist < 0
       THEN \* w is not in F: add the edges (v, w) and (w, x) to F
            IF g.m[w_id] = NoVertex THEN FailedPath
            ELSE Strict(SearchState(
                          [forest EXCEPT
                             ![w_id] = ForestNode(v_id, forest[v_id].dist + 1),
                             ![g.m[w_id]] = ForestNode(w_id, forest[v_id].dist + 2)],
                          Append(st.queue, g.m[w_id]), marked),
                        LAMBDA st2 : scanEdges(n, g, st2, v_id, w_id + 1))
       ELSE IF forest[w_id].dist % 2 = 0
       THEN IF getForestRoot(forest, v_id) # getForestRoot(forest, w_id)
            THEN rootPath(forest, v_id) \o pathToRoot(forest, w_id)
            ELSE Strict(findClosestSharedParent(forest, v_id, w_id),
                        LAMBDA blossomId : contractAndLift(n, g, forest, v_id, w_id, blossomId))
       ELSE Strict([st EXCEPT !.unmarkedEdges = marked],
                   LAMBDA st2 : scanEdges(n, g, st2, v_id, w_id + 1))

\* The blossom branch giving up: an odd cycle ends the search with no path.
contractAndLift_GiveUp(n, g, forest, v_id, w_id, blossomId) == <<>>

\* The blossom branch of findAugmentingPath (lines 493-515).
contractAndLift(n, g, forest, v_id, w_id, blossomId) ==
    LET blossomNodes == {blossomId} \cup pathBelow(forest, v_id, blossomId)
                                    \cup pathBelow(forest, w_id, blossomId)
    IN Strict(Strict([E |-> contractGraphEdges(g.E, blossomNodes, blossomId),
                      m |-> contractMatching(g.m, blossomNodes, blossomId)],
                     LAMBDA contracted : findAugmentingPath(n, contracted)),
              LAMBDA contractedPath :
                  liftPath(contractedPath, blossomId, v_id, w_id, g.E, forest))

\* The Q_ASSERTs of findMaximumMatching on the path (lines 556-572).
validAugmentingPath(E, m, p) ==
    /\ p # FailedPath
    /\ Len(p) % 2 = 0
    /\ m[p[1]] = NoVertex
    /\ m[p[Len(p)]] = NoVertex
    /\ \A i \in 1 .. Len(p) :
          (i % 2 = 0 /\ i < Len(p)) => (m[p[i]] = p[i + 1] /\ m[p[i + 1]] = p[i])
    /\ isWalk(E, p)

\* The augmentation with insertMode never toggled: every edge of p is inserted.
RECURSIVE augmentMatching_EveryEdge(_, _, _)
augmentMatching_EveryEdge(m, p, i) ==
    IF i >= Len(p) THEN m
    ELSE Strict([m EXCEPT ![p[i]] = p[i + 1], ![p[i + 1]] = p[i]],
                LAMBDA m2 : augmentMatching_EveryEdge(m2, p, i + 1))

\* findMaximumMatching, the augmentation of the matching along p (lines 574-589).
RECURSIVE augmentMatching(_, _, _)
augmentMatching(m, p, i) ==
    IF i > Len(p) THEN m
    ELSE Strict([m EXCEPT ![p[i]] = p[i + 1], ![p[i + 1]] = p[i]],
                LAMBDA m2 : augmentMatching(m2, p, i + 2))

\* findMaximumMatching, the result list (lines 592-599).
matchingEdges(m) == {<<v, m[v]>> : v \in {u \in DOMAIN m : m[u] # NoVertex /\ u < m[u]}}

\* findMaximumMatching as one call (lines 527-600): the augmenting loop.
RECURSIVE augmentLoop(_, _, _)
augmentLoop(n, E, m) ==
    Strict(findAugmentingPath(n, [E |-> E, m |-> m]),
           LAMBDA p : IF p = <<>> \/ ~validAugmentingPath(E, m, p) THEN m
                      ELSE Strict(augmentMatching(m, p, 1),
                                  LAMBDA m2 : augmentLoop(n, E, m2)))

findMaximumMatching(n, E) ==
    matchingEdges(augmentLoop(n, E, initialMatching(n, E, 0, EmptyMatching(n))))

-----------------------------------------------------------------------------
(* findMaximumMatching as a state machine: one step per loop iteration *)

Graph(n, E) == [n |-> n, E |-> E]

\* tst_graph_blossom.cpp testCase1: two disjoint 5-cycles on 10 vertices.
TwoFiveCycles ==
    Graph(10, {{0, 1}, {1, 2}, {2, 3}, {3, 4}, {4, 0},
               {5, 6}, {6, 7}, {7, 8}, {8, 9}, {9, 5}})

\* tst_graph_blossom.cpp testCase1, after g.insertEdge(1, 9).
TwoFiveCyclesJoined == Graph(10, TwoFiveCycles.E \cup {{1, 9}})

\* tst_graph_blossom.cpp testCase2.
TestCase2Graph ==
    Graph(10, {{0, 1}, {1, 2}, {2, 3}, {3, 4}, {5, 6}, {6, 7}, {7, 8}, {8, 9},
               {1, 6}, {1, 7}, {1, 8}, {2, 7}, {2, 8}, {3, 6}, {3, 7}})

\* tst_graph_blossom.cpp testCase3.
TestCase3Graph ==
    Graph(10, {{0, 1}, {0, 2}, {1, 3}, {2, 3}, {1, 4}, {4, 5}, {3, 7}, {5, 7}, {5, 6}})

\* Two paths 2-0-1-3 and 6-4-5-7 with a triangle 4-5-8 on the second: the
\* initial matching takes the middle edge of each, two edges short of the
\* maximum.
TwoShortPaths ==
    Graph(9, {{0, 1}, {0, 2}, {1, 3}, {4, 5}, {4, 6}, {5, 7}, {4, 8}, {5, 8}})

BlossomInputs ==
    UNION {{Graph(n, E) : E \in SUBSET AllEdges(n)} : n \in 0 .. MaxVertices}
    \cup {TwoFiveCycles, TwoFiveCyclesJoined, TestCase2Graph, TestCase3Graph,
          TwoShortPaths}

InitBlossom ==
    /\ bgraph \in BlossomInputs
    /\ bmatching = EmptyMatching(bgraph.n)
    /\ bphase = "start"
    /\ baugments = 0
    /\ bassert = FALSE
    /\ cfg = <<>> /\ tour = <<>> /\ gm = <<>> /\ hist = <<>>
    /\ adj = <<>> /\ chessGame = <<>>

\* findMaximumMatching lines 531-549.
SeedMatching ==
    /\ bphase = "start"
    /\ bmatching' = initialMatching(bgraph.n, bgraph.E, 0, bmatching)
    /\ bphase' = "search"
    /\ UNCHANGED <<bgraph, baugments, bassert>>
    /\ UNCHANGED <<tvars, gvars>>

\* findMaximumMatching lines 551-590, an iteration that found a path.
Augment ==
    /\ bphase = "search"
    /\ \E p \in {findAugmentingPath(bgraph.n, [E |-> bgraph.E, m |-> bmatching])} :
          /\ p # <<>>
          /\ IF validAugmentingPath(bgraph.E, bmatching, p)
             THEN /\ bmatching' = augmentMatching(bmatching, p, 1)
                  /\ baugments' = baugments + 1
                  /\ UNCHANGED <<bphase, bassert>>
             ELSE /\ bassert' = TRUE
                  /\ bphase' = "aborted"
                  /\ UNCHANGED <<bmatching, baugments>>
    /\ UNCHANGED bgraph
    /\ UNCHANGED <<tvars, gvars>>

\* findMaximumMatching lines 551-556 and 592-599: no path, return the list.
ReturnMatching ==
    /\ bphase = "search"
    /\ findAugmentingPath(bgraph.n, [E |-> bgraph.E, m |-> bmatching]) = <<>>
    /\ bphase' = "done"
    /\ UNCHANGED <<bgraph, bmatching, baugments, bassert>>
    /\ UNCHANGED <<tvars, gvars>>

NextBlossom == SeedMatching \/ Augment \/ ReturnMatching

SpecBlossom == InitBlossom /\ [][NextBlossom]_vars /\ WF_vars(NextBlossom)

-----------------------------------------------------------------------------
(* Properties of the matcher *)

IsMatchingOf(E, M) ==
    /\ \A e \in M : {e[1], e[2]} \in E /\ e[1] # e[2]
    /\ \A e, f \in M : e # f => {e[1], e[2]} \cap {f[1], f[2]} = {}

\* The size of a maximum matching of the edge set E, by exhaustive search.
RECURSIVE TrueMaximum(_)
TrueMaximum(E) ==
    IF E = {} THEN 0
    ELSE LET e == CHOOSE x \in E : TRUE
         IN Max({TrueMaximum(E \ {e}), 1 + TrueMaximum({f \in E : f \cap e = {}})})

MatchingSize(m) == Cardinality(matchingEdges(m))

HasOddCycle(g) ==
    \E a, b, c \in Vertices(g.n) :
        a < b /\ b < c /\ {a, b} \in g.E /\ {b, c} \in g.E /\ {a, c} \in g.E

\* C8: the number of edges findMaximumMatching returns is the size of a true
\* maximum matching of the graph; two disjoint 5-cycles give 4, and with the
\* edge (1,9) added they give 5.
C8_MaximumCardinality ==
    bphase = "done" =>
        /\ MatchingSize(bmatching) = TrueMaximum(bgraph.E)
        /\ bgraph = TwoFiveCycles => MatchingSize(bmatching) = 4
        /\ bgraph = TwoFiveCyclesJoined => MatchingSize(bmatching) = 5

C8_Witness ==
    /\ bphase = "done"
    /\ bgraph = TwoFiveCyclesJoined
    /\ baugments > 0
    /\ MatchingSize(bmatching) = 5

\* C9: the returned edge list is a matching of the graph: each edge is an edge
\* of the graph and no vertex is an endpoint of two returned edges.
C9_ResultIsMatching ==
    bphase = "done" => IsMatchingOf(bgraph.E, matchingEdges(bmatching))

C9_Witness ==
    /\ bphase = "done"
    /\ HasOddCycle(bgraph)
    /\ MatchingSize(bmatching) = 2
    /\ baugments > 0

\* C10: every augmentation raises the cardinality of the matching by exactly
\* one, the path it uses passes every sanity assertion, and the procedure
\* reaches its return on every input graph.
C10_AugmentByOneAndTerminate ==
    /\ [][/\ ~bassert'
          /\ baugments' # baugments =>
                /\ MatchingSize(bmatching') = MatchingSize(bmatching) + 1
                /\ IsMatchingOf(bgraph.E, matchingEdges(bmatching'))]_vars
    /\ <>(bphase = "done")

C10_Witness ==
    /\ bphase = "done"
    /\ baugments >= 2
    /\ ~bassert


-----------------------------------------------------------------------------
(* Settings and results *)

NoPlayer == -1

\* Chess::Result as onGameFinished reads it: the winner's side and whether the
\* type is Disconnection or StalledConnection. "*" is a game with no result.
NormalResults == {"1-0", "0-1", "1/2-1/2"}
CrashResults  == {"1-0 disconnection", "0-1 disconnection",
                  "1-0 stalled connection", "0-1 stalled connection"}
NoResult      == "*"

winner(result) ==
    IF result \in {"1-0", "1-0 disconnection", "1-0 stalled connection"} THEN "white"
    ELSE IF result \in {"0-1", "0-1 disconnection", "0-1 stalled connection"} THEN "black"
    ELSE "none"

isDraw(result) == result = "1/2-1/2"

isCrash(result) == result \in CrashResults

Players(c) == 0 .. (c.n - 1)

-----------------------------------------------------------------------------
(* TournamentPair *)

NoPair == <<>>

TournamentPair(player1, player2) ==
    [first |-> player1, second |-> player2, firstScore |-> 0, secondScore |-> 0,
     gamesStarted |-> 0, hasOriginalOrder |-> TRUE]

isValid(pr) == pr.first # NoPlayer /\ pr.second # NoPlayer

swapPlayers(pr) ==
    [pr EXCEPT !.first = pr.second, !.second = pr.first,
               !.firstScore = pr.secondScore, !.secondScore = pr.firstScore,
               !.hasOriginalOrder = ~pr.hasOriginalOrder]

addStartedGame(pr) == [pr EXCEPT !.gamesStarted = @ + 1]

leader(pr) ==
    IF pr.firstScore > pr.secondScore THEN pr.first
    ELSE IF pr.secondScore > pr.firstScore THEN pr.second
    ELSE NoPlayer

pairGamesInProgress(pr) == pr.gamesStarted - ((pr.firstScore + pr.secondScore) \div 2)

\* Tournament::pair (tournament.cpp 379-399): the pair stored under
\* (player1, player2) or (player2, player1), created when there is none.
pairKey(t, player1, player2) ==
    IF <<player1, player2>> \in DOMAIN t.m_pairs THEN <<player1, player2>>
    ELSE IF <<player2, player1>> \in DOMAIN t.m_pairs THEN <<player2, player1>>
    ELSE <<player1, player2>>

pair(t, player1, player2) ==
    IF pairKey(t, player1, player2) \in DOMAIN t.m_pairs THEN t
    ELSE [t EXCEPT !.m_pairs =
             [k \in DOMAIN @ \cup {<<player1, player2>>} |->
                 IF k \in DOMAIN @ THEN @[k] ELSE TournamentPair(player1, player2)]]

-----------------------------------------------------------------------------
(* roundrobintournament.cpp *)

\* QList::insert(i, value) with i counted from 0.
insertAt(list, i, value) ==
    SubSeq(list, 1, i) \o <<value>> \o SubSeq(list, i + 1, Len(list))

\* QList::takeAt(i) leaves this list, i counted from 0.
removeAt(list, i) == SubSeq(list, 1, i) \o SubSeq(list, i + 2, Len(list))

\* QList::indexOf, counted from 0.
indexOf(list, value) == Min({i \in 1 .. Len(list) : list[i] = value}) - 1

rrCount(c) == c.n + (c.n % 2)

\* RoundRobinTournament::gamesPerCycle.
rrGamesPerCycle(c) == (c.n * (c.n - 1)) \div 2

\* A Berger table with the seats in their order.
bergerTable_SeatOrder(c) == [k \in 1 .. rrCount(c) |-> k - 1]

\* RoundRobinTournament::initializePairing(QList<int>&), the Berger table.
bergerTable(c) ==
    [k \in 1 .. rrCount(c) |->
        IF (k - 1) % 2 = 0 THEN (k - 1) \div 2
        ELSE rrCount(c) - (k \div 2)]

\* RoundRobinTournament::initializePairing.
rrInitializePairing(t, c) ==
    IF c.berger
    THEN [t EXCEPT !.m_pairNumber = 0, !.m_topHalf = bergerTable(c)]
    ELSE [t EXCEPT !.m_pairNumber = 0,
                   !.m_topHalf = [k \in 1 .. (rrCount(c) \div 2) |-> k - 1],
                   !.m_bottomHalf = [k \in 1 .. (rrCount(c) \div 2) |-> rrCount(c) - k]]

\* The Berger branch with the last seat always put first.
rrBergerAdvance_PivotFirst(t, c) ==
    LET count == rrCount(c)
        shifted == [k \in 1 .. count |->
                       IF t.m_topHalf[k] # count - 1
                       THEN (t.m_topHalf[k] + (count \div 2)) % (count - 1)
                       ELSE t.m_topHalf[k]]
        t1 == IF t.m_pairNumber >= Len(t.m_topHalf)
              THEN [t EXCEPT !.m_topHalf = insertAt(removeAt(shifted, indexOf(shifted, count - 1)),
                                                    0, count - 1),
                             !.m_pairNumber = 0,
                             !.m_round = @ + 1]
              ELSE t
    IN [t |-> [t1 EXCEPT !.m_pairNumber = @ + 2],
        white |-> t1.m_topHalf[t1.m_pairNumber + 1],
        black |-> t1.m_topHalf[t1.m_pairNumber + 2]]

\* RoundRobinTournament::nextPair, the Berger branch up to white and black.
rrBergerAdvance(t, c) ==
    LET count == rrCount(c)
        roundsPerCycle == rrGamesPerCycle(c) \div (count \div 2)
        shifted == [k \in 1 .. count |->
                       IF t.m_topHalf[k] # count - 1
                       THEN (t.m_topHalf[k] + (count \div 2)) % (count - 1)
                       ELSE t.m_topHalf[k]]
        at == IF (t.m_round % roundsPerCycle) % 2 = 0 THEN 1 ELSE 0
        t1 == IF t.m_pairNumber >= Len(t.m_topHalf)
              THEN [t EXCEPT !.m_topHalf = insertAt(removeAt(shifted, indexOf(shifted, count - 1)),
                                                    at, count - 1),
                             !.m_pairNumber = 0,
                             !.m_round = @ + 1]
              ELSE t
    IN [t |-> [t1 EXCEPT !.m_pairNumber = @ + 2],
        white |-> t1.m_topHalf[t1.m_pairNumber + 1],
        black |-> t1.m_topHalf[t1.m_pairNumber + 2]]

\* rrPlainAdvance with a rotation that moves the first player too.
rrPlainAdvance_RotateAll(t, c) ==
    LET t1 == IF t.m_pairNumber >= Len(t.m_topHalf)
              THEN LET top1 == insertAt(t.m_topHalf, 0, Head(t.m_bottomHalf))
                   IN [t EXCEPT !.m_pairNumber = 0,
                                !.m_round = @ + 1,
                                !.m_topHalf = SubSeq(top1, 1, Len(top1) - 1),
                                !.m_bottomHalf = Append(Tail(@), top1[Len(top1)])]
              ELSE t
    IN [t |-> [t1 EXCEPT !.m_pairNumber = @ + 1],
        white |-> t1.m_topHalf[t1.m_pairNumber + 1],
        black |-> t1.m_bottomHalf[t1.m_pairNumber + 1]]

\* RoundRobinTournament::nextPair, the plain branch up to white and black.
rrPlainAdvance(t, c) ==
    LET t1 == IF t.m_pairNumber >= Len(t.m_topHalf)
              THEN LET top1 == insertAt(t.m_topHalf, 1, Head(t.m_bottomHalf))
                   IN [t EXCEPT !.m_pairNumber = 0,
                                !.m_round = @ + 1,
                                !.m_topHalf = SubSeq(top1, 1, Len(top1) - 1),
                                !.m_bottomHalf = Append(Tail(@), top1[Len(top1)])]
              ELSE t
    IN [t |-> [t1 EXCEPT !.m_pairNumber = @ + 1],
        white |-> t1.m_topHalf[t1.m_pairNumber + 1],
        black |-> t1.m_bottomHalf[t1.m_pairNumber + 1]]

\* RoundRobinTournament::nextPair (lines 175-230). The result is the
\* tournament after the call and the key of the pair returned (NoPair for
\* nullptr).
RECURSIVE rrNextPair(_, _, _)
rrNextPair(t, c, gameNumber) ==
    IF gameNumber >= t.m_finalGameCount THEN [t |-> t, pair |-> NoPair]
    ELSE IF ~c.berger /\ gameNumber % c.gpe # 0 THEN [t |-> t, pair |-> t.m_pair]
    ELSE Strict(IF c.berger THEN rrBergerAdvance(t, c) ELSE rrPlainAdvance(t, c),
                LAMBDA a :
                    IF a.white < c.n /\ a.black < c.n
                    THEN [t |-> pair(a.t, a.white, a.black),
                          pair |-> pairKey(a.t, a.white, a.black)]
                    ELSE rrNextPair(a.t, c, gameNumber))


-----------------------------------------------------------------------------
(* tournament.cpp *)

\* The Tournament object after its constructor (tournament.cpp 36-78) and the
\* add-player calls. Besides the members it holds the object's connections
\* (readyConnected, destroyedConnected) and what it has sent out: the finished()
\* signals emitted, the queued stop() calls posted to itself and to games, the
\* games written to the PGN file, the games start() stepped over on resume, the
\* BYEs the Swiss pairing handed out, and whether the Q_ASSERT of the Swiss
\* pairing loop failed.
NewTournament(c) ==
    [m_round |-> 0, m_nextGameNumber |-> 0, m_finishedGameCount |-> 0,
     m_savedGameCount |-> 0, m_finalGameCount |-> 0,
     m_stopping |-> FALSE, m_finished |-> FALSE, m_lastGame |-> 0,
     m_gameData |-> {}, m_pgnGames |-> {}, m_pair |-> NoPair, m_pairs |-> <<>>,
     score |-> [p \in Players(c) |-> 0], crashes |-> [p \in Players(c) |-> 0],
     m_pairNumber |-> 0, m_topHalf |-> <<>>, m_bottomHalf |-> <<>>,
     m_rounds |-> <<>>, m_should_we_stop_global |-> FALSE,
     m_playerStats |-> <<>>, m_pairings |-> <<>>, m_encounterHistory |-> <<>>,
     m_ignoreRoundsForEncounters |-> 0, byesAssigned |-> 0, pairingAssert |-> FALSE,
     started |-> FALSE, readyConnected |-> FALSE, destroyedConnected |-> FALSE,
     finishedEmitted |-> 0, selfStopsPosted |-> 0, gameStopsPosted |-> <<>>,
     pgnFile |-> <<>>, replayed |-> <<>>]

GameData(number, whiteIndex, blackIndex) ==
    [number |-> number, whiteIndex |-> whiteIndex, blackIndex |-> blackIndex]

gameDataOf(t, game) == CHOOSE d \in t.m_gameData : d.number = game

\* Tournament::gamesInProgress (lines 241-244).
gamesInProgress(t) == t.m_nextGameNumber - t.m_finishedGameCount

\* Tournament::usesBergerSchedule (lines 199-202).
usesBergerSchedule(c) == c.berger /\ c.type = "round-robin"

\* TournamentPlayer::addScore behind Tournament::addScore (lines 666-669): the
\* score moves by the amount, and a -1 is counted as a crash.
playerAddScore(t, player, amount) ==
    [t EXCEPT !.score[player] = @ + amount,
              !.crashes[player] = IF amount < 0 THEN @ + 1 ELSE @]

-----------------------------------------------------------------------------
(* knockouttournament.cpp *)

\* Tournament::strikes(): m_strikes as the constructor sets it.
Strikes == 3

\* KnockoutTournament::playerSeed (lines 46-60).
RECURSIVE playerSeed(_, _)
playerSeed(rank, bracketSize) ==
    IF rank <= 1 THEN 0
    ELSE IF rank % 2 = 0
         THEN bracketSize \div 2 + playerSeed(rank \div 2, bracketSize \div 2)
         ELSE playerSeed(rank \div 2 + 1, bracketSize \div 2)

\* The bracket size of initializePairing (lines 89-91).
RECURSIVE bracketFor(_, _)
bracketFor(x, n) == IF x < n THEN bracketFor(2 * x, n) ELSE x

\* The loop of initializePairing that seats players and BYEs (lines 99-114);
\* all is the 0-based vector, i the loop index, byes the BYEs seated so far.
RECURSIVE seatPlayers(_, _, _, _, _)
seatPlayers(all, x, n, i, byes) ==
    IF i >= x THEN all
    ELSE IF i >= n
         THEN LET index == playerSeed(i + 1, x)
                  byeIndex == playerSeed(byes + 1, x) + 1
                  all1 == [all EXCEPT ![index] = all[byeIndex]]
              IN seatPlayers([all1 EXCEPT ![byeIndex] = NoPlayer], x, n, i + 1, byes + 1)
         ELSE seatPlayers([all EXCEPT ![i] = i], x, n, i + 1, byes)

\* The pairs of a round: players[j] holds the two players of the j-th pair,
\* and Tournament::pair finds or makes each pair.
RECURSIVE makeRound(_, _, _, _, _)
makeRound(t, players, count, j, keys) ==
    IF j >= count THEN [t |-> t, keys |-> keys]
    ELSE LET p1 == players[j][1]
             p2 == players[j][2]
             t1 == pair(t, p1, p2)
         IN makeRound(t1, players, count, j + 1, Append(keys, pairKey(t1, p1, p2)))

\* KnockoutTournament::initializePairing (lines 87-126).
koInitializePairing(t, c) ==
    LET x == bracketFor(1, c.n)
        all == seatPlayers([i \in 0 .. x - 1 |-> NoPlayer], x, c.n, 0, 0)
        r == makeRound(t, [j \in 0 .. x \div 2 - 1 |-> <<all[j], all[x - j - 1]>>],
                       x \div 2, 0, <<>>)
    IN [r.t EXCEPT !.m_rounds = <<r.keys>>]

\* qNextPowerOfTwo: the smallest power of two greater than v.
RECURSIVE qNextPowerOfTwo(_, _)
qNextPowerOfTwo(x, v) == IF x <= v THEN qNextPowerOfTwo(2 * x, v) ELSE x

RECURSIVE laterRounds(_)
laterRounds(round) == IF round >= 2 THEN round \div 2 + laterRounds(round \div 2) ELSE 0

\* KnockoutTournament::gamesPerCycle (lines 128-140).
koGamesPerCycle(c) ==
    LET x == qNextPowerOfTwo(1, c.n - 1)
    IN (x \div 2 - (x - c.n)) + laterRounds(x \div 2)

lastRound(t) == t.m_rounds[Len(t.m_rounds)]

\* KnockoutTournament::addScore (lines 142-162).
koAddScore(t, player, amount) ==
    LET last == lastRound(t)
        hits == {i \in 1 .. Len(last) :
                    t.m_pairs[last[i]].first = player \/ t.m_pairs[last[i]].second = player}
        key == last[Min(hits)]
        t1 == IF amount > 0 /\ hits # {}
              THEN IF t.m_pairs[key].first = player
                   THEN [t EXCEPT !.m_pairs[key].firstScore = @ + amount]
                   ELSE [t EXCEPT !.m_pairs[key].secondScore = @ + amount]
              ELSE t
    IN playerAddScore(t1, player, amount)

\* KnockoutTournament::shouldWeStop (lines 268-301), with the resume score and
\* the builder's strikes of a player at 0. It answers for the pair and tells
\* what it leaves in m_should_we_stop_global.
shouldWeStop(t, c, pr, global) ==
    LET leadScore == Max({pr.firstScore, pr.secondScore})
        g1 == IF leadScore <= c.gpe \/ pr.firstScore = pr.secondScore THEN FALSE ELSE global
        struck == t.crashes[pr.first] >= Strikes
    IN IF ~g1 THEN [stop |-> struck, global |-> struck]
       ELSE [stop |-> TRUE, global |-> TRUE]

\* needMoreGames with a minimum margin of 2 whatever the games played.
needMoreGames_MarginTwo(t, c, pr, global) ==
    IF ~isValid(pr) THEN [need |-> FALSE, global |-> global]
    ELSE LET s == shouldWeStop(t, c, pr, global)
             leadScore == Max({pr.firstScore, pr.secondScore})
             maxDiff == IF pr.firstScore >= pr.secondScore
                        THEN pr.firstScore - pr.secondScore
                        ELSE pr.secondScore - pr.firstScore
         IN IF s.stop THEN [need |-> FALSE, global |-> s.global]
            ELSE IF leadScore <= c.gpe THEN [need |-> TRUE, global |-> s.global]
            ELSE [need |-> maxDiff < 2, global |-> s.global]

\* KnockoutTournament::needMoreGames (lines 325-375).
needMoreGames(t, c, pr, global) ==
    IF ~isValid(pr) THEN [need |-> FALSE, global |-> global]
    ELSE LET s == shouldWeStop(t, c, pr, global)
             leadScore == Max({pr.firstScore, pr.secondScore})
             minDiff == IF (pr.firstScore + pr.secondScore) % 4 = 0 THEN 2 ELSE 3
             maxDiff == IF pr.firstScore >= pr.secondScore
                        THEN pr.firstScore - pr.secondScore
                        ELSE pr.secondScore - pr.firstScore
         IN IF s.stop THEN [need |-> FALSE, global |-> s.global]
            ELSE IF leadScore <= c.gpe THEN [need |-> TRUE, global |-> s.global]
            ELSE [need |-> maxDiff < minDiff, global |-> s.global]

\* The loop over the last round shared by areAllGamesFinished (lines 174-187)
\* and nextPair (lines 381-386): the position of the first pair that needs
\* more games (0 when none does) and the state of m_should_we_stop_global.
RECURSIVE firstNeedy(_, _, _, _)
firstNeedy(t, c, i, global) ==
    IF i > Len(lastRound(t)) THEN [found |-> 0, global |-> global]
    ELSE LET r == needMoreGames(t, c, t.m_pairs[lastRound(t)[i]], global)
         IN IF r.need THEN [found |-> i, global |-> r.global]
            ELSE firstNeedy(t, c, i + 1, r.global)

\* KnockoutTournament::lastRoundWinners (lines 164-172).
lastRoundWinners(t) == [i \in 1 .. Len(lastRound(t)) |-> leader(t.m_pairs[lastRound(t)[i]])]

\* KnockoutTournament::nextPair (lines 377-412).
koNextPair(t, c) ==
    LET s == firstNeedy(t, c, 1, t.m_should_we_stop_global)
        t0 == [t EXCEPT !.m_should_we_stop_global = s.global]
        winners == lastRoundWinners(t)
        r == makeRound(t0, [j \in 0 .. Len(winners) \div 2 - 1 |->
                                <<winners[2 * j + 1], winners[2 * j + 2]>>],
                       Len(winners) \div 2, 0, <<>>)
        t1 == [r.t EXCEPT !.m_rounds = Append(@, r.keys)]
        valid == {i \in 1 .. Len(r.keys) : isValid(t1.m_pairs[r.keys[i]])}
    IN IF s.found # 0 THEN [t |-> t0, pair |-> lastRound(t)[s.found]]
       ELSE IF Len(winners) <= 1 \/ gamesInProgress(t) # 0 THEN [t |-> t0, pair |-> NoPair]
       ELSE IF t.m_round = 1 THEN [t |-> t1, pair |-> NoPair]
       ELSE [t |-> [t1 EXCEPT !.m_round = @ + 1],
             pair |-> IF valid = {} THEN NoPair ELSE r.keys[Min(valid)]]

-----------------------------------------------------------------------------
(* swisstournament.cpp *)

\* SwissTournament::gamesPerCycle and gamesPerRound (lines 126-134).
swGamesPerCycle(c) == c.n \div 2
swGamesPerRound(c) == swGamesPerCycle(c) * c.gpe

PlayerStats(whiteGameDiff, byeReceived) ==
    [whiteGameDiff |-> whiteGameDiff, byeReceived |-> byeReceived]

\* SwissTournament::initializePairing (lines 103-124) for settings that pass
\* its two checks: one game at a time, and no Berger schedule with an odd
\* number of games per encounter.
swInitializePairing(t, c) ==
    [t EXCEPT !.m_playerStats = [p \in Players(c) |-> PlayerStats(0, FALSE)],
              !.m_pairings = <<>>,
              !.m_encounterHistory = [i \in 1 .. swGamesPerCycle(c) * c.rm |-> <<0, 0>>],
              !.m_ignoreRoundsForEncounters = 0]

\* EncountersTable (lines 136-160) as the set of the pairs {player1, player2}.
addEncounter(encounters, player1, player2) == encounters \cup {{player1, player2}}
hasMet(encounters, player1, player2) == {player1, player2} \in encounters

PairingData(playerIndex, score, paired) ==
    [playerIndex |-> playerIndex, score |-> score, paired |-> paired]

\* PairingData::operator< (swisstournament.h 68-80).
pairingLess(a, b) ==
    a.score > b.score \/ (a.score = b.score /\ a.playerIndex < b.playerIndex)

\* tryPairing that finds every round pairable.
tryPairing_NoCheck(c, pairingData, playerIndex1, playerIndex2, encounters) == TRUE

\* SwissTournament::tryPairing (lines 162-201).
tryPairing(c, pairingData, playerIndex1, playerIndex2, encounters) ==
    LET paired == {pairingData[i].playerIndex : i \in {j \in 1 .. c.n : pairingData[j].paired}}
                  \cup ({playerIndex1, playerIndex2} \ {-1})
        unpaired == Players(c) \ paired
        E == {e \in AllEdges(c.n) : e \subseteq unpaired /\ e \notin encounters}
    IN 2 * Cardinality(findMaximumMatching(c.n, E)) = Cardinality(unpaired)

\* The colour rule of rebuildEncountersSet (lines 220-241), pair by pair in
\* the order of its two loops.
RECURSIVE disallowByColour(_, _, _, _, _)
disallowByColour(t, c, encounters, i, j) ==
    IF i >= c.n THEN encounters
    ELSE IF j >= c.n THEN disallowByColour(t, c, encounters, i + 1, i + 2)
    ELSE LET sum == t.m_playerStats[i].whiteGameDiff + t.m_playerStats[j].whiteGameDiff
         IN disallowByColour(
               t, c,
               IF ~hasMet(encounters, i, j) /\ (sum > 2 \/ sum < -2)
               THEN addEncounter(encounters, i, j) ELSE encounters,
               i, j + 1)

\* SwissTournament::rebuildEncountersSet, a table that knows only the colour
\* rule and nothing of the rounds played.
rebuildEncountersSet_ForgetHistory(t, c) == disallowByColour(t, c, {}, 0, 1)

\* SwissTournament::rebuildEncountersSet (lines 203-242).
rebuildEncountersSet(t, c) ==
    LET history == {{t.m_encounterHistory[r0 * swGamesPerCycle(c) + g + 1][1],
                     t.m_encounterHistory[r0 * swGamesPerCycle(c) + g + 1][2]} :
                        r0 \in t.m_ignoreRoundsForEncounters .. t.m_round - 2,
                        g \in 0 .. swGamesPerCycle(c) - 1}
    IN disallowByColour(t, c, history, 0, 1)

\* SwissTournament::generatePairingOrder (lines 244-256): the entries sorted
\* by operator<.
generatePairingOrder(t, c) ==
    [k \in 1 .. c.n |->
        CHOOSE e \in {PairingData(p, t.score[p], FALSE) : p \in Players(c)} :
            Cardinality({p \in Players(c) :
                            pairingLess(PairingData(p, t.score[p], FALSE), e)}) = k - 1]

RECURSIVE creditBye(_, _, _)
creditBye(t, player, games) ==
    IF games = 0 THEN t ELSE creditBye(playerAddScore(t, player, 2), player, games - 1)

\* SwissTournament::assignByeIfNecessary (lines 258-300); it gives the
\* tournament and the pairing data it leaves.
assignByeIfNecessary(t, c, pairingData) ==
    LET allByes == \A p \in Players(c) : t.m_playerStats[p].byeReceived
        stats == IF allByes
                 THEN [p \in Players(c) |-> [t.m_playerStats[p] EXCEPT !.byeReceived = FALSE]]
                 ELSE t.m_playerStats
        open == {i \in 1 .. c.n : ~stats[pairingData[i].playerIndex].byeReceived}
        i == Max(open)
        player == pairingData[i].playerIndex
    IN IF c.n % 2 = 0 THEN [t |-> t, pairingData |-> pairingData]
       ELSE [t |-> creditBye([t EXCEPT !.m_playerStats =
                                           [stats EXCEPT ![player].byeReceived = TRUE],
                                       !.byesAssigned = @ + 1],
                             player, c.gpe),
             pairingData |-> [pairingData EXCEPT ![i].paired = TRUE]]

\* determineColorIsFirstWhite with a tie-break that always gives the first
\* player black.
determineColorIsFirstWhite_FirstBlack(t, c, firstPlayer, secondPlayer) ==
    LET firstDiff == t.m_playerStats[firstPlayer].whiteGameDiff
        secondDiff == t.m_playerStats[secondPlayer].whiteGameDiff
    IN IF c.gpe % 2 = 0 THEN FALSE
       ELSE firstDiff < secondDiff

\* determineColorIsFirstWhite giving white to the player with the higher score.
determineColorIsFirstWhite_HigherWhite(t, c, firstPlayer, secondPlayer) ==
    LET firstDiff == t.m_playerStats[firstPlayer].whiteGameDiff
        secondDiff == t.m_playerStats[secondPlayer].whiteGameDiff
    IN IF c.gpe % 2 = 0 THEN FALSE
       ELSE IF firstDiff < secondDiff THEN TRUE
       ELSE IF firstDiff > secondDiff THEN FALSE
       ELSE IF t.score[firstPlayer] > t.score[secondPlayer] THEN TRUE
       ELSE (t.m_round - 1) % 4 \in {1, 2}

\* SwissTournament::determineColorIsFirstWhite (lines 302-334).
determineColorIsFirstWhite(t, c, firstPlayer, secondPlayer) ==
    LET firstDiff == t.m_playerStats[firstPlayer].whiteGameDiff
        secondDiff == t.m_playerStats[secondPlayer].whiteGameDiff
    IN IF c.gpe % 2 = 0 THEN FALSE
       ELSE IF firstDiff < secondDiff THEN TRUE
       ELSE IF firstDiff > secondDiff THEN FALSE
       ELSE IF t.score[firstPlayer] > t.score[secondPlayer] THEN FALSE
       ELSE (t.m_round - 1) % 4 \in {1, 2}

\* pairWith counting the colour of the first player only.
pairWith_FirstOnly(s, c, pd1, firstUnpaired, j) ==
    LET secondUnpaired == pd1[j].playerIndex
        isFirstWhite == determineColorIsFirstWhite(s.t, c, firstUnpaired, secondUnpaired)
        newPair == IF isFirstWhite THEN <<firstUnpaired, secondUnpaired>>
                   ELSE <<secondUnpaired, firstUnpaired>>
        step == IF c.gpe % 2 = 0 THEN 0 ELSE IF isFirstWhite THEN 1 ELSE -1
    IN [t |-> [s.t EXCEPT
                  !.m_playerStats[firstUnpaired].whiteGameDiff = @ + step,
                  !.m_pairings[c.n \div 2 - s.pairNo] = newPair],
        pairingData |-> [pd1 EXCEPT ![j].paired = TRUE],
        encounters |-> addEncounter(s.encounters, firstUnpaired, secondUnpaired),
        pairNo |-> s.pairNo + 1]

\* One round of the outer loop of assignPairs (lines 345-431): s holds the
\* tournament, the pairing data, the encounters and pairNo. pairWith is the
\* body of the inner loop once the second player is found (lines 387-429).
pairWith(s, c, pd1, firstUnpaired, j) ==
    LET secondUnpaired == pd1[j].playerIndex
        isFirstWhite == determineColorIsFirstWhite(s.t, c, firstUnpaired, secondUnpaired)
        newPair == IF isFirstWhite THEN <<firstUnpaired, secondUnpaired>>
                   ELSE <<secondUnpaired, firstUnpaired>>
        step == IF c.gpe % 2 = 0 THEN 0 ELSE IF isFirstWhite THEN 1 ELSE -1
    IN [t |-> [s.t EXCEPT
                  !.m_playerStats[firstUnpaired].whiteGameDiff = @ + step,
                  !.m_playerStats[secondUnpaired].whiteGameDiff = @ - step,
                  !.m_pairings[c.n \div 2 - s.pairNo] = newPair],
        pairingData |-> [pd1 EXCEPT ![j].paired = TRUE],
        encounters |-> addEncounter(s.encounters, firstUnpaired, secondUnpaired),
        pairNo |-> s.pairNo + 1]

assignOnePair(s, c) ==
    LET free == {j \in 1 .. c.n : ~s.pairingData[j].paired}
        firstUnpaired == s.pairingData[Min(free)].playerIndex
        pd1 == [s.pairingData EXCEPT ![Min(free)].paired = TRUE]
    IN IF free = {} THEN s
       ELSE Strict({j \in free \ {Min(free)} :
                       /\ ~hasMet(s.encounters, firstUnpaired, pd1[j].playerIndex)
                       /\ tryPairing(c, pd1,
                                     Min({firstUnpaired, pd1[j].playerIndex}),
                                     Max({firstUnpaired, pd1[j].playerIndex}),
                                     s.encounters)},
                   LAMBDA matches :
                       IF matches = {} THEN [s EXCEPT !.pairingData = pd1]
                       ELSE pairWith(s, c, pd1, firstUnpaired, Min(matches)))

RECURSIVE assignPairsLoop(_, _, _)
assignPairsLoop(s, c, i) ==
    IF i >= c.n \div 2 THEN s
    ELSE Strict(assignOnePair(s, c), LAMBDA s1 : assignPairsLoop(s1, c, i + 1))

\* SwissTournament::assignPairs (lines 336-432).
assignPairs(t, c, pairingData, encounters) ==
    assignPairsLoop([t |-> [t EXCEPT !.m_pairings = [i \in 1 .. c.n \div 2 |-> <<0, 0>>]],
                     pairingData |-> pairingData, encounters |-> encounters, pairNo |-> 0],
                    c, 0).t

\* STEP 3 of generateRoundPairings (lines 461-487): rounds are ignored until
\* the round can be paired. Its Q_ASSERT fails when no round is left to
\* ignore; the loop then has no end, and the round is left unpaired here.
RECURSIVE ignoreRounds(_, _, _)
ignoreRounds(t, c, pairingData) ==
    IF tryPairing(c, pairingData, -1, -1, rebuildEncountersSet(t, c)) THEN t
    ELSE IF t.m_ignoreRoundsForEncounters + 1 >= t.m_round
         THEN [t EXCEPT !.m_ignoreRoundsForEncounters = @ + 1, !.pairingAssert = TRUE]
         ELSE ignoreRounds([t EXCEPT !.m_ignoreRoundsForEncounters = @ + 1], c, pairingData)

\* SwissTournament::generateRoundPairings (lines 435-495); recordEncounters
\* is its last loop (lines 493-494).
recordEncounters(t2, c) ==
    [t2 EXCEPT !.m_encounterHistory =
        [k \in DOMAIN @ |->
            IF k - 1 \in (t2.m_round - 1) * swGamesPerCycle(c)
                         .. (t2.m_round - 1) * swGamesPerCycle(c) + swGamesPerCycle(c) - 1
            THEN t2.m_pairings[k - (t2.m_round - 1) * swGamesPerCycle(c)]
            ELSE @[k]]]

generateRoundPairings(t, c) ==
    Strict(assignByeIfNecessary(t, c, generatePairingOrder(t, c)),
           LAMBDA b :
               Strict(ignoreRounds(b.t, c, b.pairingData),
                      LAMBDA t1 :
                          Strict(assignPairs(t1, c, b.pairingData,
                                             rebuildEncountersSet(t1, c)),
                                 LAMBDA t2 : recordEncounters(t2, c))))

\* SwissTournament::getPairForGame (lines 40-68).
getPairForGame(t, c, gameNumber) ==
    LET round == gameNumber \div swGamesPerRound(c)
        gameInRound == gameNumber % swGamesPerRound(c)
        pairNum == IF c.berger THEN gameInRound % swGamesPerCycle(c)
                   ELSE gameInRound \div c.gpe
        encounterNum == IF c.berger THEN gameInRound \div swGamesPerCycle(c)
                        ELSE gameInRound % c.gpe
        thePair == t.m_encounterHistory[round * swGamesPerCycle(c) + pairNum + 1]
    IN IF encounterNum % 2 = 1 THEN <<thePair[2], thePair[1]>> ELSE thePair

\* SwissTournament::nextPair (lines 497-556), in two parts: swNextPair pairs
\* the round when the game opens one, and swTakePair (lines 510-519) looks the
\* game's pair up and turns it to the game's colours. No result is
\* prerecorded, as nothing calls addResumeGameResult.
swTakePair(t1, c, gameNumber) ==
    LET thePair == getPairForGame(t1, c, gameNumber)
        t2 == pair(t1, thePair[1], thePair[2])
        key == pairKey(t2, thePair[1], thePair[2])
    IN [t |-> IF t2.m_pairs[key].first # thePair[1]
              THEN [t2 EXCEPT !.m_pairs[key] = swapPlayers(@)] ELSE t2,
        pair |-> key]

swNextPair(t, c, gameNumber) ==
    IF gameNumber >= t.m_finalGameCount THEN [t |-> t, pair |-> NoPair]
    ELSE Strict(IF gameNumber % swGamesPerRound(c) = 0
                THEN generateRoundPairings(
                        [t EXCEPT !.m_round = 1 + gameNumber \div swGamesPerRound(c)], c)
                ELSE t,
                LAMBDA t1 : swTakePair(t1, c, gameNumber))

-----------------------------------------------------------------------------
(* tournament.cpp: the calls that go to the tournament's type *)

\* gamesPerCycle() of the tournament's type.
gamesPerCycle(c) ==
    IF c.type = "knockout" THEN koGamesPerCycle(c)
    ELSE IF c.type = "swiss-tcec" THEN swGamesPerCycle(c)
    ELSE rrGamesPerCycle(c)

\* Tournament::addScore (lines 666-669) or its override.
addScore(t, c, player, amount) ==
    IF c.type = "knockout" THEN koAddScore(t, player, amount)
    ELSE playerAddScore(t, player, amount)

\* What areAllGamesFinished() of the knockout leaves in m_should_we_stop_global.
globalAfterAllGamesFinished(t, c) ==
    IF c.type = "knockout" THEN firstNeedy(t, c, 1, t.m_should_we_stop_global).global
    ELSE t.m_should_we_stop_global

\* areAllGamesFinished() of the tournament's type (base: lines 401-404,
\* knockout: knockouttournament.cpp 174-187).
areAllGamesFinished(t, c) ==
    IF c.type = "knockout" THEN firstNeedy(t, c, 1, t.m_should_we_stop_global).found = 0
    ELSE t.m_finishedGameCount >= t.m_finalGameCount

\* initializePairing() of the tournament's type.
initializePairing(t, c) ==
    IF c.type = "knockout" THEN koInitializePairing(t, c)
    ELSE IF c.type = "swiss-tcec" THEN swInitializePairing(t, c)
    ELSE rrInitializePairing(t, c)

\* nextPair() of the tournament's type.
nextPair(t, c, gameNumber) ==
    IF c.type = "knockout" THEN koNextPair(t, c)
    ELSE IF c.type = "swiss-tcec" THEN swNextPair(t, c, gameNumber)
    ELSE rrNextPair(t, c, gameNumber)

\* The part of startGame and of the resume loop of start() that takes the
\* pair: m_pair, addStartedGame and the Berger colour swap (lines 422-428,
\* 1060-1066).
takePair(t, c, key) ==
    LET pr1 == addStartedGame(t.m_pairs[key])
        oddCycle == (t.m_nextGameNumber \div gamesPerCycle(c)) % 2 = 1
    IN [t EXCEPT !.m_pair = key,
                 !.m_pairs[key] =
                     IF c.swap /\ usesBergerSchedule(c) /\ (oddCycle <=> pr1.hasOriginalOrder)
                     THEN swapPlayers(pr1) ELSE pr1]

\* afterNumbering with a finalGameCount that never grows.
afterNumbering_NoGrowth(t, c) ==
    [t EXCEPT !.m_pairs[t.m_pair] = IF c.swap /\ ~usesBergerSchedule(c)
                                    THEN swapPlayers(@) ELSE @]

\* The part of startGame and of the resume loop that follows the numbering of
\* the game: finalGameCount grows when needed, and the pair is turned for its
\* next game (lines 529-537, 1142-1149).
afterNumbering(t, c) ==
    [t EXCEPT !.m_finalGameCount = IF t.m_nextGameNumber > @ THEN t.m_nextGameNumber ELSE @,
              !.m_pairs[t.m_pair] = IF c.swap /\ ~usesBergerSchedule(c)
                                    THEN swapPlayers(@) ELSE @]

\* Tournament::startGame (lines 411-549).
startGame(t, c, key) ==
    LET t1 == takePair(t, c, key)
        pr == t1.m_pairs[key]
        number == t.m_nextGameNumber + 1
    IN afterNumbering([t1 EXCEPT !.m_nextGameNumber = number,
                                 !.m_gameData = @ \cup {GameData(number, pr.first, pr.second)}],
                      c)

\* Tournament::startNextGame (lines 566-582).
startNextGame(t, c) ==
    IF t.m_stopping THEN t
    ELSE Strict(nextPair(t, c, t.m_nextGameNumber),
                LAMBDA np : IF np.pair = NoPair \/ ~isValid(np.t.m_pairs[np.pair]) THEN np.t
                            ELSE startGame(np.t, c, np.pair))

\* Tournament::onFinished (lines 1012-1017).
onFinished(t) == [t EXCEPT !.m_finished = TRUE, !.finishedEmitted = @ + 1]

\* Tournament::stop (lines 1160-1178).
stop(t) ==
    IF t.m_stopping THEN t
    ELSE IF t.m_gameData = {} THEN onFinished([t EXCEPT !.readyConnected = FALSE])
    ELSE [t EXCEPT !.readyConnected = FALSE,
                   !.m_stopping = TRUE,
                   !.gameStopsPosted = @ \o SetToSeq({d.number : d \in t.m_gameData})]

\* Tournament::writePgn (lines 584-625) with a PGN file that opens.
RECURSIVE flushPgn(_)
flushPgn(t) ==
    IF (t.m_savedGameCount + 1) \in t.m_pgnGames
    THEN flushPgn([t EXCEPT !.m_pgnGames = @ \ {t.m_savedGameCount + 1},
                            !.m_savedGameCount = @ + 1,
                            !.pgnFile = Append(@, t.m_savedGameCount + 1)])
    ELSE t

\* writePgn without the buffer: the game goes to the file as it arrives.
writePgn_Unbuffered(t, gameNumber) ==
    [t EXCEPT !.pgnFile = Append(@, gameNumber),
              !.m_savedGameCount = IF gameNumber > @ THEN gameNumber ELSE @]

writePgn(t, gameNumber) == flushPgn([t EXCEPT !.m_pgnGames = @ \cup {gameNumber}])


\* scoreChange with a loser who keeps a point.
scoreChange_LoserKeepsPoint(result) ==
    IF winner(result) = "white" THEN <<2, 1>>
    ELSE IF winner(result) = "black" THEN <<1, 2>>
    ELSE IF isDraw(result) THEN <<1, 1>>
    ELSE <<0, 0>>

\* scoreChange with no penalty for a disconnection or a stalled connection.
scoreChange_NoPenalty(result) ==
    IF winner(result) = "white" THEN <<2, 0>>
    ELSE IF winner(result) = "black" THEN <<0, 2>>
    ELSE IF isDraw(result) THEN <<1, 1>>
    ELSE <<0, 0>>

\* The score changes of onGameFinished (lines 919-957) as <<white, black>>.
scoreChange(result) ==
    IF winner(result) = "white" THEN <<2, IF isCrash(result) THEN -1 ELSE 0>>
    ELSE IF winner(result) = "black" THEN <<IF isCrash(result) THEN -1 ELSE 0, 2>>
    ELSE IF isDraw(result) THEN <<1, 1>>
    ELSE <<0, 0>>

\* Sprt::GameResult handed to the SPRT by onGameFinished.
sprtResultOf(result, iWhite, iBlack) ==
    IF winner(result) = "white" THEN (IF iWhite = 0 THEN "Win" ELSE "Loss")
    ELSE IF winner(result) = "black" THEN (IF iBlack = 0 THEN "Win" ELSE "Loss")
    ELSE IF isDraw(result) THEN "Draw"
    ELSE "NoResult"

\* Tournament::onGameFinished (lines 896-990). sprtStatus is the status the
\* SPRT reports once the result is added to it.
onGameFinished(t, c, game, result, sprtStatus) ==
    LET data == gameDataOf(t, game)
        iWhite == data.whiteIndex
        iBlack == data.blackIndex
        t1 == [t EXCEPT !.m_finishedGameCount = @ + 1, !.m_gameData = @ \ {data}]
        t2 == IF winner(result) = "white"
              THEN addScore(addScore(t1, c, iWhite, scoreChange(result)[1]),
                            c, iBlack, scoreChange(result)[2])
              ELSE IF winner(result) = "black"
              THEN addScore(addScore(t1, c, iBlack, scoreChange(result)[2]),
                            c, iWhite, scoreChange(result)[1])
              ELSE IF isDraw(result)
              THEN addScore(addScore(t1, c, iWhite, scoreChange(result)[1]),
                            c, iBlack, scoreChange(result)[2])
              ELSE t1
        t3 == writePgn(t2, data.number)
        t4 == IF ~c.recover /\ isCrash(result) THEN stop(t3) ELSE t3
        t5 == IF c.sprt /\ sprtResultOf(result, iWhite, iBlack) # "NoResult"
                 /\ sprtStatus # "Continue"
              THEN [t4 EXCEPT !.selfStopsPosted = @ + 1] ELSE t4
        t6 == [t5 EXCEPT !.m_should_we_stop_global = globalAfterAllGamesFinished(t5, c)]
    IN IF areAllGamesFinished(t5, c) \/ (t5.m_stopping /\ t5.m_gameData = {})
       THEN [t6 EXCEPT !.m_stopping = FALSE, !.m_lastGame = game,
                       !.destroyedConnected = TRUE]
       ELSE t6

\* Tournament::onGameDestroyed (lines 992-999).
onGameDestroyed(t, game) ==
    IF game # t.m_lastGame THEN t ELSE onFinished([t EXCEPT !.m_lastGame = 0])

\* Tournament::onGameStartFailed (lines 1001-1010).
onGameStartFailed(t, game) ==
    stop([t EXCEPT !.m_gameData = {d \in @ : d.number # game}])

\* The resume loop of Tournament::start (lines 1046-1152), k games to go.
\* aborted tells that the loop left start() through its return statement.
RECURSIVE resumeLoop(_, _, _)
resumeLoop(t, c, k) ==
    IF k = 0 THEN [t |-> t, aborted |-> FALSE]
    ELSE Strict(nextPair(t, c, t.m_nextGameNumber),
                LAMBDA np :
                    IF np.pair = NoPair \/ ~isValid(np.t.m_pairs[np.pair])
                    THEN [t |-> np.t, aborted |-> TRUE]
                    ELSE Strict(takePair(np.t, c, np.pair),
                                LAMBDA t1 :
                                    resumeLoop(
                                       afterNumbering(
                                          [t1 EXCEPT
                                              !.m_nextGameNumber = @ + 1,
                                              !.m_finishedGameCount = @ + 1,
                                              !.replayed = Append(@, <<t1.m_pairs[np.pair].first,
                                                                       t1.m_pairs[np.pair].second>>)],
                                          c),
                                       c, k - 1)))

\* Tournament::start (lines 1019-1158).
start(t, c) ==
    LET t1 == initializePairing(
                 [t EXCEPT !.started = TRUE, !.m_round = 1, !.m_nextGameNumber = 0,
                           !.m_finishedGameCount = 0, !.m_savedGameCount = 0,
                           !.m_finalGameCount = 0, !.m_stopping = FALSE,
                           !.m_gameData = {}, !.m_pgnGames = {},
                           !.readyConnected = TRUE],
                 c)
        t2 == [t1 EXCEPT !.m_finalGameCount = gamesPerCycle(c) * c.gpe * c.rm]
    IN Strict(resumeLoop(t2, c, c.resume),
              LAMBDA r : IF r.aborted THEN r.t
                         ELSE startNextGame(
                                 IF c.resume = 0 THEN r.t
                                 ELSE [r.t EXCEPT !.m_savedGameCount = r.t.m_finishedGameCount],
                                 c))


-----------------------------------------------------------------------------
(* The tournament run as a state machine *)

Settings(type, n, gpe, rm, berger, conc, recover, sprt, resume, file) ==
    [type |-> type, n |-> n, gpe |-> gpe, rm |-> rm, swap |-> TRUE, berger |-> berger,
     conc |-> conc, recover |-> recover, sprt |-> sprt, resume |-> resume, file |-> file]

\* The results main.cpp finds in the matchProgress list of a tournament file
\* (lines 545-566): k finished games, none with result "*".
ResultFiles(k) == [1 .. k -> NormalResults]

RoundRobinSettings ==
    {Settings("round-robin", n, 1, 1, berger, conc, recover, FALSE, 0, <<>>) :
        n \in 2 .. MaxPlayers, berger \in BOOLEAN, conc \in 1 .. 2, recover \in BOOLEAN}
    \cup {Settings("round-robin", 2, 2, 1, FALSE, conc, TRUE, FALSE, 0, <<>>) : conc \in 1 .. 2}

SprtSettings ==
    {Settings("round-robin", 2, 2, 1, FALSE, conc, TRUE, TRUE, 0, <<>>) : conc \in 1 .. 2}

ResumeSettings ==
    UNION {{Settings("round-robin", MaxPlayers, 1, 1, berger, 1, TRUE, FALSE, k, file) :
               berger \in BOOLEAN, file \in ResultFiles(k)} : k \in 1 .. MaxResume}

KnockoutSettings ==
    {Settings("knockout", 2, gpe, 1, FALSE, 1, TRUE, FALSE, 0, <<>>) : gpe \in 1 .. 2}

\* The Swiss tournament plays one game at a time (swisstournament.cpp 121-123).
SwissSettings ==
    {Settings("swiss-tcec", n, 1, rm, FALSE, 1, TRUE, FALSE, 0, <<>>) :
        n \in 2 .. MaxPlayers, rm \in 1 .. 2}

SwissRoundsSettings ==
    {Settings("swiss-tcec", 3, 1, MaxRounds, FALSE, 1, TRUE, FALSE, 0, <<>>),
     Settings("swiss-tcec", 4, 1, MaxRounds - 1, FALSE, 1, FALSE, FALSE, 0, <<>>),
     Settings("swiss-tcec", 4, 2, 2, TRUE, 1, FALSE, FALSE, 0, <<>>)}

AllSettings ==
    RoundRobinSettings \cup SprtSettings \cup ResumeSettings \cup KnockoutSettings
    \cup SwissSettings \cup SwissRoundsSettings

\* The GameManager holds the games the tournament enqueued: a game is active
\* until the tournament has handled its finished() signal, and from then it
\* waits in closing, in the order of the deleteLater() calls, until the manager
\* emits gameDestroyed for it.
NewGameManager == [active |-> {}, closing |-> <<>>, selfStopsDelivered |-> 0]

NewHistory(c) ==
    [stopCalls |-> 0, noResults |-> 0, penalties |-> 0,
     credited |-> [p \in Players(c) |-> 0]]

InitTournament ==
    /\ cfg \in AllSettings
    /\ tour = NewTournament(cfg)
    /\ gm = NewGameManager
    /\ hist = NewHistory(cfg)
    /\ bgraph = Graph(0, {}) /\ bmatching = <<>> /\ bphase = "unused"
    /\ baugments = 0 /\ bassert = FALSE
    /\ adj = <<>> /\ chessGame = <<>>

enqueued(t, t2) == {d.number : d \in t2.m_gameData} \ {d.number : d \in t.m_gameData}

\* What the games a resumed run steps over were worth when they were played.
RECURSIVE creditFile(_, _, _, _)
creditFile(score, replayed, file, i) ==
    IF i > Len(replayed) THEN score
    ELSE creditFile([score EXCEPT ![replayed[i][1]] = @ + scoreChange(file[i])[1],
                                  ![replayed[i][2]] = @ + scoreChange(file[i])[2]],
                    replayed, file, i + 1)

\* EngineMatch::start -> Tournament::start.
Start ==
    /\ ~tour.started
    /\ tour' = start(tour, cfg)
    /\ gm' = [gm EXCEPT !.active = enqueued(tour, tour')]
    /\ hist' = [hist EXCEPT !.credited = creditFile(@, tour'.replayed, cfg.file, 1)]
    /\ UNCHANGED <<cfg, bvars, gvars>>

\* GameManager::ready -> Tournament::startNextGame, when the slot is connected
\* and fewer games are running than the manager's concurrency allows.
Ready ==
    /\ tour.started /\ tour.readyConnected
    /\ Cardinality(gm.active) < cfg.conc
    /\ tour.m_nextGameNumber < MaxGames
    /\ tour' = startNextGame(tour, cfg)
    /\ gm' = [gm EXCEPT !.active = @ \cup enqueued(tour, tour')]
    /\ UNCHANGED <<cfg, hist, bvars, gvars>>

\* The results a game can end with: any result with a winner or a draw, and no
\* result when the game was told to stop.
ResultsOf(game) ==
    NormalResults \cup CrashResults
    \cup (IF \E i \in 1 .. Len(tour.gameStopsPosted) : tour.gameStopsPosted[i] = game
          THEN {NoResult} ELSE {})

SprtStatuses == {"Continue", "AcceptH0", "AcceptH1"}

\* ChessGame::finished -> Tournament::onGameFinished.
GameFinished ==
    \E game \in gm.active : \E result \in ResultsOf(game) :
    \E sprtStatus \in IF cfg.sprt THEN SprtStatuses ELSE {"Continue"} :
        /\ tour' = onGameFinished(tour, cfg, game, result, sprtStatus)
        /\ gm' = [gm EXCEPT !.active = @ \ {game}, !.closing = Append(@, game)]
        /\ hist' = [hist EXCEPT
               !.noResults = IF result = NoResult THEN @ + 1 ELSE @,
               !.penalties = IF isCrash(result) THEN @ + 1 ELSE @,
               !.credited = [@ EXCEPT
                   ![gameDataOf(tour, game).whiteIndex] = @ + scoreChange(result)[1],
                   ![gameDataOf(tour, game).blackIndex] = @ + scoreChange(result)[2]]]
        /\ UNCHANGED <<cfg, bvars, gvars>>

\* GameManager::gameDestroyed -> Tournament::onGameDestroyed, when connected.
GameDestroyed ==
    /\ gm.closing # <<>>
    /\ tour' = IF tour.destroyedConnected THEN onGameDestroyed(tour, Head(gm.closing))
               ELSE tour
    /\ gm' = [gm EXCEPT !.closing = Tail(@)]
    /\ UNCHANGED <<cfg, hist, bvars, gvars>>

\* ChessGame::startFailed -> Tournament::onGameStartFailed.
GameStartFailed ==
    \E game \in gm.active :
        /\ tour' = onGameStartFailed(tour, game)
        /\ gm' = [gm EXCEPT !.active = @ \ {game}]
        /\ UNCHANGED <<cfg, hist, bvars, gvars>>

\* Tournament::stop called from outside (EngineMatch::stop posts it).
Stop ==
    /\ tour.started
    /\ hist.stopCalls < MaxStopCalls
    /\ tour' = stop(tour)
    /\ hist' = [hist EXCEPT !.stopCalls = @ + 1]
    /\ UNCHANGED <<cfg, gm, bvars, gvars>>

\* The stop() the tournament posted to itself is delivered.
QueuedStop ==
    /\ gm.selfStopsDelivered < tour.selfStopsPosted
    /\ tour' = stop(tour)
    /\ gm' = [gm EXCEPT !.selfStopsDelivered = @ + 1]
    /\ UNCHANGED <<cfg, hist, bvars, gvars>>

Next ==
    \/ Start
    \/ Ready
    \/ GameFinished
    \/ GameDestroyed
    \/ GameStartFailed
    \/ Stop
    \/ QueuedStop

Spec == InitTournament /\ [][Next]_vars



-----------------------------------------------------------------------------
(* Properties of the tournament run *)

RECURSIVE SumOver(_, _)
SumOver(f, S) ==
    IF S = {} THEN 0
    ELSE LET x == CHOOSE y \in S : TRUE IN f[x] + SumOver(f, S \ {x})

TotalScore == SumOver(tour.score, Players(cfg))

Finishing == tour.m_lastGame # 0 \/ tour.m_finished

\* C1 as stated: finishedGameCount never exceeds finalGameCount, and the two
\* are equal only when the tournament finishes.
C1_EqualOnlyAtFinish ==
    tour.started =>
        /\ tour.m_finishedGameCount <= tour.m_finalGameCount
        /\ (tour.m_finishedGameCount = tour.m_finalGameCount => Finishing)

\* C1: finishedGameCount never exceeds finalGameCount. In a round-robin or
\* Swiss run the two are equal only when every scheduled game is finished: the
\* tournament is finishing or has finished, or the run was resumed from a file
\* that already held every game. (A knockout reaches equality between the games
\* of an encounter that needs more games.)
C1_FinishedWithinFinal ==
    tour.started =>
        /\ tour.m_finishedGameCount <= tour.m_finalGameCount
        /\ (cfg.type # "knockout" /\ tour.m_finishedGameCount = tour.m_finalGameCount
               => Finishing \/ Len(tour.replayed) = tour.m_finalGameCount)

C1_Witness ==
    /\ cfg.type = "round-robin" /\ cfg.resume = 0
    /\ tour.m_finishedGameCount = tour.m_finalGameCount
    /\ tour.m_finishedGameCount > 1
    /\ tour.m_lastGame # 0

\* C2 as stated: without a disconnection or stalled-connection penalty the
\* scores add up to 2 x finishedGameCount.
C2_ScoreConservation ==
    hist.penalties = 0 => TotalScore = 2 * tour.m_finishedGameCount

\* C2: without a disconnection or stalled-connection penalty the scores add up
\* to 2 for every game of this run that finished with a winner or a draw, plus
\* 2 x gamesPerEncounter for every BYE of a Swiss round; games that ended
\* without a result and games stepped over on resume add nothing.
C2_ScoreAccounting ==
    hist.penalties = 0 =>
        TotalScore = 2 * (tour.m_finishedGameCount - Len(tour.replayed) - hist.noResults)
                     + 2 * cfg.gpe * tour.byesAssigned

C2_Witness ==
    /\ hist.penalties = 0
    /\ tour.byesAssigned > 0
    /\ tour.m_finishedGameCount > 1
    /\ TotalScore > 2 * tour.m_finishedGameCount

\* C3: the games reach the PGN file in increasing game-number order without a
\* gap, starting after the games of the resumed file: a game that finished
\* before a lower-numbered one is held until the lower-numbered one is written.
C3_PgnInOrder ==
    /\ \A i \in 1 .. Len(tour.pgnFile) : tour.pgnFile[i] = Len(tour.replayed) + i
    /\ \A g \in tour.m_pgnGames :
           /\ g > tour.m_savedGameCount + 1
           /\ \A i \in 1 .. Len(tour.pgnFile) : tour.pgnFile[i] # g

C3_Witness ==
    /\ 2 \in tour.m_pgnGames
    /\ 1 \in gm.active
    /\ tour.pgnFile = <<>>

\* C4 as stated: once the SPRT has scheduled the stop, no further game is
\* enqueued.
C4_NoGameAfterSprtStop ==
    [][tour.selfStopsPosted > 0 => tour'.m_nextGameNumber = tour.m_nextGameNumber]_vars

\* C5 as stated: a second call of stop() emits no finished() and posts no
\* stop to a game.
C5_StopIdempotent ==
    [][hist.stopCalls >= 1 /\ hist'.stopCalls = hist.stopCalls + 1
          => /\ tour'.finishedEmitted = tour.finishedEmitted
             /\ tour'.gameStopsPosted = tour.gameStopsPosted]_vars

\* C6 as stated: a run resumed from a file of k finished games and played to
\* its end has the per-player scores of the run from scratch with the same
\* game outcomes.
C6_ResumeSameScores ==
    (cfg.resume > 0 /\ tour.m_finished
        /\ tour.m_finishedGameCount = tour.m_finalGameCount /\ hist.noResults = 0)
    => \A p \in Players(cfg) : tour.score[p] = hist.credited[p]

Met(p, q) == {p[1], p[2]} = {q[1], q[2]}

\* C7: no pair of the pairings of Swiss round k holds two players who met in a
\* round from ignoreRounds to k-1.
C7_NoRepeatedPair ==
    (cfg.type = "swiss-tcec" /\ tour.m_pairings # <<>>) =>
        \A i \in 1 .. Len(tour.m_pairings) :
        \A r0 \in tour.m_ignoreRoundsForEncounters .. tour.m_round - 2 :
        \A g \in 0 .. swGamesPerCycle(cfg) - 1 :
            ~Met(tour.m_pairings[i],
                 tour.m_encounterHistory[r0 * swGamesPerCycle(cfg) + g + 1])

C7_Witness ==
    /\ cfg.type = "swiss-tcec" /\ cfg.n = 4
    /\ tour.m_round = 3
    /\ tour.m_ignoreRoundsForEncounters = 0
    /\ ~tour.pairingAssert

-----------------------------------------------------------------------------
(* The schedule of a tournament played to its end *)

\* A run follows one schedule to its end: up to MaxScheduleGames games are
\* started, one at a time.
MaxScheduleGames == 12

\* Players A, B, C, D of a naive round-robin with two games per encounter.
RoundRobinFour == Settings("round-robin", 4, 2, 1, FALSE, 1, TRUE, FALSE, 0, <<>>)

\* Seeded players S1, S2, S3, S4 of a knockout with best-of-4 encounters.
KnockoutFour == Settings("knockout", 4, 4, 1, FALSE, 1, TRUE, FALSE, 0, <<>>)

ScheduleSettings == {RoundRobinFour, KnockoutFour}

\* The history of a scheduled run also keeps the games in the order they were
\* started, each as <<white, black>>.
ScheduleHistory(c) == NewHistory(c) @@ [games |-> <<>>]

InitSchedule ==
    /\ cfg \in ScheduleSettings
    /\ tour = NewTournament(cfg)
    /\ gm = NewGameManager
    /\ hist = ScheduleHistory(cfg)
    /\ bgraph = Graph(0, {}) /\ bmatching = <<>> /\ bphase = "unused"
    /\ baugments = 0 /\ bassert = FALSE
    /\ adj = <<>> /\ chessGame = <<>>

\* The games startGame added to m_gameData between t and t2, in the order of
\* their numbers, as <<whiteIndex, blackIndex>>.
gamesStarted(t, t2) ==
    LET numbers == SetToSeq(enqueued(t, t2))
    IN [i \in 1 .. Len(numbers) |->
           <<gameDataOf(t2, numbers[i]).whiteIndex, gameDataOf(t2, numbers[i]).blackIndex>>]

\* EngineMatch::start -> Tournament::start.
ScheduleStart ==
    /\ ~tour.started
    /\ tour' = start(tour, cfg)
    /\ gm' = [gm EXCEPT !.active = enqueued(tour, tour')]
    /\ hist' = [hist EXCEPT !.games = @ \o gamesStarted(tour, tour')]
    /\ UNCHANGED <<cfg, bvars, gvars>>

\* GameManager::ready -> Tournament::startNextGame.
ScheduleReady ==
    /\ tour.started /\ tour.readyConnected
    /\ Cardinality(gm.active) < cfg.conc
    /\ tour.m_nextGameNumber < MaxScheduleGames
    /\ tour' = startNextGame(tour, cfg)
    /\ tour' # tour
    /\ gm' = [gm EXCEPT !.active = @ \cup enqueued(tour, tour')]
    /\ hist' = [hist EXCEPT !.games = @ \o gamesStarted(tour, tour')]
    /\ UNCHANGED <<cfg, bvars, gvars>>

\* ChessGame::finished -> Tournament::onGameFinished, for a game that ended
\* with a winner or a draw and no penalty.
ScheduleGameFinished ==
    \E g \in gm.active : \E result \in NormalResults :
        /\ tour' = onGameFinished(tour, cfg, g, result, "Continue")
        /\ gm' = [gm EXCEPT !.active = @ \ {g}, !.closing = Append(@, g)]
        /\ hist' = [hist EXCEPT
               !.credited = [@ EXCEPT
                   ![gameDataOf(tour, g).whiteIndex] = @ + scoreChange(result)[1],
                   ![gameDataOf(tour, g).blackIndex] = @ + scoreChange(result)[2]]]
        /\ UNCHANGED <<cfg, bvars, gvars>>

NextSchedule ==
    \/ ScheduleStart
    \/ ScheduleReady
    \/ ScheduleGameFinished
    \/ GameDestroyed

SpecSchedule == InitSchedule /\ [][NextSchedule]_vars

\* The 12 games as (white, black), with A, B, C, D as players 0, 1, 2, 3, in
\* the order A-D, D-A, B-C, C-B, A-C, C-A, D-B, B-D, A-B, B-A, D-C, C-D.
StatedRoundRobinFour ==
    << <<0, 3>>, <<3, 0>>, <<1, 2>>, <<2, 1>>, <<0, 2>>, <<2, 0>>,
       <<3, 1>>, <<1, 3>>, <<0, 1>>, <<1, 0>>, <<3, 2>>, <<2, 3>> >>

\* The same with the last encounter as C-D, D-C.
PlayedRoundRobinFour ==
    << <<0, 3>>, <<3, 0>>, <<1, 2>>, <<2, 1>>, <<0, 2>>, <<2, 0>>,
       <<3, 1>>, <<1, 3>>, <<0, 1>>, <<1, 0>>, <<2, 3>>, <<3, 2>> >>

\* The games started so far are the first games of the sequence.
StartedAlong(games) ==
    /\ Len(hist.games) <= Len(games)
    /\ hist.games = SubSeq(games, 1, Len(hist.games))

\* C11 as stated: in the naive round-robin of players A, B, C, D with
\* swapSides and two games per encounter, the games are started in the order
\* A-D, D-A, B-C, C-B, A-C, C-A, D-B, B-D, A-B, B-A, D-C, C-D.
C11_StatedOrder == cfg = RoundRobinFour => StartedAlong(StatedRoundRobinFour)

\* C11: in the naive round-robin of players A, B, C, D with swapSides and two
\* games per encounter, the games are started in the order A-D, D-A, B-C, C-B,
\* A-C, C-A, D-B, B-D, A-B, B-A, C-D, D-C: the second rotation leaves C in the
\* top half and D in the bottom half, so C has white in the first game of the
\* last encounter.
C11_RoundRobinFourOrder == cfg = RoundRobinFour => StartedAlong(PlayedRoundRobinFour)

C11_Witness ==
    /\ cfg = RoundRobinFour
    /\ hist.games = PlayedRoundRobinFour
    /\ tour.m_finished

-----------------------------------------------------------------------------
(* The second round of a Swiss tournament of four *)

\* A Swiss tournament of four players with one game per encounter has paired
\* its second round, and both games of the first round, 0 against 1 and 2
\* against 3, were won by white.
RoundTwoAfterWhiteWins ==
    /\ cfg.type = "swiss-tcec" /\ cfg.n = 4 /\ cfg.gpe = 1
    /\ tour.m_round = 2 /\ tour.m_finishedGameCount = 2
    /\ hist.penalties = 0
    /\ {{tour.m_encounterHistory[g][1], tour.m_encounterHistory[g][2]} : g \in 1 .. 2}
           = {{0, 1}, {2, 3}}
    /\ \A g \in 1 .. 2 :
          /\ tour.score[tour.m_encounterHistory[g][1]] = 2
          /\ tour.score[tour.m_encounterHistory[g][2]] = 0

\* The pairs of the round as sets of two players.
RoundPairs == {{tour.m_pairings[k][1], tour.m_pairings[k][2]} : k \in DOMAIN tour.m_pairings}

TotalWhiteGameDiff ==
    SumOver([p \in Players(cfg) |-> tour.m_playerStats[p].whiteGameDiff], Players(cfg))

\* C13: in a Swiss tournament with an even number of players the sum of
\* whiteGameDiff over all players is zero, from the start of the tournament
\* and after every round that was paired.
C13_WhiteGameDiffSumsToZero ==
    cfg.type = "swiss-tcec" /\ cfg.n % 2 = 0 /\ tour.started => TotalWhiteGameDiff = 0

\* Three rounds were paired and the colours of some player are out of balance.
C13_Witness ==
    /\ cfg.type = "swiss-tcec" /\ cfg.n = 4
    /\ tour.m_round = 3
    /\ \E p \in Players(cfg) : tour.m_playerStats[p].whiteGameDiff # 0
    /\ TotalWhiteGameDiff = 0

\* A game of the final was started: a game that is not S1-S4 or S2-S3.
FinalStarted ==
    \E i \in 1 .. Len(hist.games) :
        {hist.games[i][1], hist.games[i][2]} \notin {{0, 3}, {1, 2}}

\* C14 as stated: in the knockout of four seeded players with best-of-4
\* encounters the first round is S1-S4 and S2-S3 with colours alternating from
\* game to game, and the tournament does not finish before the winners of the
\* two encounters have met in the final.
C14_FinalAfterSemifinals ==
    cfg = KnockoutFour =>
        /\ \A i \in 1 .. Len(hist.games) :
              /\ ~FinalStarted => {hist.games[i][1], hist.games[i][2]} \in {{0, 3}, {1, 2}}
              /\ i > 1 /\ {hist.games[i][1], hist.games[i][2]}
                            = {hist.games[i - 1][1], hist.games[i - 1][2]}
                    => hist.games[i] = <<hist.games[i - 1][2], hist.games[i - 1][1]>>
        /\ (tour.finishedEmitted > 0 => FinalStarted)

-----------------------------------------------------------------------------
(* chessgame.cpp, chessplayer.cpp: one game between two players *)

\* A game takes at most MaxBook forced opening moves and MaxPlies plies, and
\* is sent at most MaxWarnings moves by the player who is not to move.
MaxBook == 2
MaxPlies == 4
MaxWarnings == 2

Sides == {"white", "black"}
NoSide == "none"

\* Chess::Side::opposite.
opposite(side) == IF side = "white" THEN "black" ELSE IF side = "black" THEN "white" ELSE NoSide

\* Chess::Result: its type and its winner; the default result has no type.
GameResult(type, gameWinner) == [type |-> type, winner |-> gameWinner]
NoGameResult == GameResult("NoResult", NoSide)
isNone(result) == result.type = "NoResult"
loser(result) == opposite(result.winner)

\* Chess::Result::toShortString, the value PgnGame::setResult gives the
\* Result tag.
toShortString(result) ==
    IF isNone(result) \/ result.type = "ResultError" THEN "*"
    ELSE IF result.winner = "white" THEN "1-0"
    ELSE IF result.winner = "black" THEN "0-1"
    ELSE "1/2-1/2"

\* QString::number: the decimal digits of a number.
RECURSIVE number(_)
number(n) == IF n < 10 THEN <<n>> ELSE Append(number(n \div 10), n % 10)

\* A tag the PGN does not hold.
NoTag == <<>>

\* What the board can answer to result() after a move, and what the
\* adjudicator can answer after its evaluation.
BoardResults == {NoGameResult} \cup {GameResult("Normal", w) : w \in Sides \cup {NoSide}}
AdjudicatorResults == {NoGameResult} \cup {GameResult("Adjudication", w) : w \in Sides \cup {NoSide}}

\* What a player can claim with resultClaim.
ClaimedResults ==
    {GameResult("Disconnection", NoSide)}
    \cup {GameResult("Normal", w) : w \in Sides \cup {NoSide}}

\* ChessPlayer::ChessPlayer (chessplayer.cpp 23-33), with the connection
\* state ChessGame asks for.
NewChessPlayer == [m_gameInProgress |-> FALSE, m_side |-> NoSide, disconnected |-> FALSE]

\* ChessGame::ChessGame (chessgame.cpp 201-221) and the setters called before
\* start(): forced is the length of the forced opening (setMoves).
NewChessGame(forced, claimsValidated, variantSupported) ==
    [m_finished |-> FALSE, m_gameInProgress |-> FALSE, m_pgnInitialized |-> FALSE,
     m_result |-> NoGameResult,
     m_moves |-> forced,
     sideToMove |-> "white", boardPlies |-> 0,
     pgn |-> [moves |-> 0, Result |-> NoTag, PlyCount |-> NoTag],
     players |-> [s \in Sides |-> NewChessPlayer],
     claimsValidated |-> claimsValidated, variantSupported |-> variantSupported,
     started |-> FALSE,
     resultClaimConnected |-> FALSE, startGameConnected |-> FALSE,
     moveMadeConnected |-> FALSE, finishConnected |-> FALSE,
     turns |-> 0, warnings |-> 0, finished |-> <<>>,
     last |-> <<"created", NoSide>>, tick |-> 0, stoppedInProgress |-> FALSE]

\* ChessGame::initializePgn (lines 807-848).
gameInitializePgn(g) ==
    IF g.m_pgnInitialized THEN g
    ELSE [g EXCEPT !.m_pgnInitialized = TRUE, !.pgn.Result = toShortString(g.m_result)]

\* ChessGame::finish (lines 347-357).
gameFinish(g) ==
    [g EXCEPT !.finishConnected = FALSE, !.resultClaimConnected = FALSE,
              !.moveMadeConnected = FALSE, !.finished = Append(@, g.m_result)]

\* ChessPlayer::endGame (chessplayer.cpp 54-61).
endGame(player) == [player EXCEPT !.m_gameInProgress = FALSE]

\* ChessPlayer::newGame (chessplayer.cpp 40-52).
newGame(player, side) == [player EXCEPT !.m_gameInProgress = TRUE, !.m_side = side]

\* ChessGame::stop with a PGN that is left as it is when the game is not in
\* progress and gets no PlyCount tag when it is.
gameStop_NoPlyCount(g) ==
    IF g.m_finished THEN g
    ELSE IF ~g.m_gameInProgress
         THEN gameFinish([g EXCEPT !.m_finished = TRUE, !.m_result = NoGameResult])
         ELSE LET g1 == gameInitializePgn([g EXCEPT !.m_finished = TRUE])
              IN [g1 EXCEPT !.m_gameInProgress = FALSE,
                            !.pgn.Result = toShortString(g1.m_result),
                            !.players = [s \in Sides |-> endGame(@[s])],
                            !.finishConnected = TRUE,
                            !.stoppedInProgress = TRUE]

\* ChessGame::stop (lines 305-345). After a stop of a game in progress,
\* finish() waits for playersReady.
gameStop(g) ==
    IF g.m_finished THEN g
    ELSE IF ~g.m_gameInProgress
         THEN gameFinish([g EXCEPT !.m_finished = TRUE, !.m_result = NoGameResult])
         ELSE LET g1 == gameInitializePgn([g EXCEPT !.m_finished = TRUE])
              IN [g1 EXCEPT !.m_gameInProgress = FALSE,
                            !.pgn.PlyCount = number(g1.pgn.moves),
                            !.pgn.Result = toShortString(g1.m_result),
                            !.players = [s \in Sides |-> endGame(@[s])],
                            !.finishConnected = TRUE,
                            !.stoppedInProgress = TRUE]

\* ChessGame::start (lines 773-791), with no start delay.
gameStart(g) ==
    [g EXCEPT !.started = TRUE, !.resultClaimConnected = TRUE, !.startGameConnected = TRUE]

\* The forced opening of startGame (lines 894-911): played moves are added to
\* the PGN and made on the board.
playForced(g, played) ==
    [g EXCEPT !.pgn.moves = @ + played, !.boardPlies = played,
              !.sideToMove = IF played % 2 = 0 THEN "white" ELSE "black"]

\* ChessGame::startGame (lines 850-928). bookEnd is the forced move after
\* which the board has a result (0 when it has none after any), result that
\* result.
gameStartGame(g, bookEnd, result) ==
    LET g0 == [g EXCEPT !.m_result = NoGameResult, !.startGameConnected = FALSE]
        g1 == [g0 EXCEPT !.m_gameInProgress = TRUE]
        g2 == [gameInitializePgn(g1) EXCEPT
                  !.players = [s \in Sides |-> newGame(@[s], s)]]
    IN IF g0.m_finished THEN g0
       ELSE IF \E s \in Sides : g1.players[s].disconnected THEN g1
       ELSE IF ~g1.variantSupported
            THEN gameStop([g1 EXCEPT !.m_result = GameResult("ResultError", NoSide)])
       ELSE IF bookEnd > 0
            THEN gameStop([playForced(g2, bookEnd) EXCEPT !.m_result = result])
       ELSE [playForced(g2, g2.m_moves) EXCEPT
                !.moveMadeConnected = TRUE, !.turns = @ + 1]

\* ChessGame::onMoveMade taking the move of any player.
gameOnMoveMade_AnySender(g, sender, boardResult, adjudicatorResult) ==
    LET g1 == [g EXCEPT !.m_moves = @ + 1, !.pgn.moves = @ + 1,
                        !.m_result = IF isNone(boardResult) THEN adjudicatorResult
                                     ELSE boardResult,
                        !.boardPlies = @ + 1,
                        !.sideToMove = opposite(@)]
    IN IF isNone(g1.m_result) THEN [g1 EXCEPT !.turns = @ + 1]
       ELSE gameStop(g1)

\* ChessGame::onMoveMade (lines 397-442): boardResult is the board's result
\* after the move, adjudicatorResult the adjudicator's.
gameOnMoveMade(g, sender, boardResult, adjudicatorResult) ==
    IF sender # g.sideToMove THEN [g EXCEPT !.warnings = @ + 1]
    ELSE LET g1 == [g EXCEPT !.m_moves = @ + 1, !.pgn.moves = @ + 1,
                             !.m_result = IF isNone(boardResult) THEN adjudicatorResult
                                          ELSE boardResult,
                             !.boardPlies = @ + 1,
                             !.sideToMove = opposite(@)]
         IN IF isNone(g1.m_result) THEN [g1 EXCEPT !.turns = @ + 1]
            ELSE gameStop(g1)

\* ChessGame::onResultClaim (lines 487-523).
gameOnResultClaim(g, sender, result) ==
    IF g.m_finished THEN g
    ELSE IF result.type = "Disconnection"
         THEN gameStop([g EXCEPT !.m_result = GameResult(result.type, opposite(sender))])
    ELSE IF ~g.m_gameInProgress /\ result.winner = NoSide
         THEN gameStop(g)
    ELSE IF g.claimsValidated /\ loser(result) # g.players[sender].m_side
         THEN gameStop([g EXCEPT !.m_result =
                           GameResult("Adjudication", opposite(g.players[sender].m_side))])
    ELSE gameStop([g EXCEPT !.m_result = result])

\* The game after a slot has run for a signal of the sender.
handled(g, signal, sender) == [g EXCEPT !.last = <<signal, sender>>, !.tick = 1 - @]

InitGame ==
    /\ chessGame \in {NewChessGame(forced, claimsValidated, variantSupported) :
                         forced \in 0 .. MaxBook,
                         claimsValidated \in BOOLEAN, variantSupported \in BOOLEAN}
    /\ adj = <<>>
    /\ cfg = <<>> /\ tour = <<>> /\ gm = <<>> /\ hist = <<>>
    /\ bgraph = Graph(0, {}) /\ bmatching = <<>> /\ bphase = "unused"
    /\ baugments = 0 /\ bassert = FALSE

\* GameManager -> ChessGame::start.
GameStart ==
    /\ ~chessGame.started
    /\ chessGame' = handled(gameStart(chessGame), "start", NoSide)
    /\ UNCHANGED <<adj, tvars, bvars>>

\* playersReady -> ChessGame::startGame.
GameStartGame ==
    /\ chessGame.startGameConnected
    /\ \E bookEnd \in 0 .. chessGame.m_moves : \E result \in BoardResults \ {NoGameResult} :
          chessGame' = handled(gameStartGame(chessGame, bookEnd, result), "playersReady", NoSide)
    /\ UNCHANGED <<adj, tvars, bvars>>

\* ChessPlayer::emitMove -> moveMade -> ChessGame::onMoveMade. A player sends
\* moves between newGame and endGame.
MoveMade(sender) ==
    /\ chessGame.moveMadeConnected
    /\ chessGame.players[sender].m_gameInProgress
    /\ ~chessGame.players[sender].disconnected
    /\ chessGame.pgn.moves < MaxPlies
    /\ chessGame.warnings < MaxWarnings
    /\ \E boardResult \in BoardResults : \E adjudicatorResult \in AdjudicatorResults :
          chessGame' = handled(gameOnMoveMade(chessGame, sender, boardResult, adjudicatorResult),
                               "moveMade", sender)
    /\ UNCHANGED <<adj, tvars, bvars>>

\* resultClaim -> ChessGame::onResultClaim.
ResultClaim(sender) ==
    /\ chessGame.resultClaimConnected
    /\ \E result \in ClaimedResults :
          chessGame' = handled(gameOnResultClaim(chessGame, sender, result),
                               "resultClaim", sender)
    /\ UNCHANGED <<adj, tvars, bvars>>

\* ChessPlayer::onDisconnect (chessplayer.cpp 154-158): the player emits
\* forfeit(WinByDisconnection, otherSide()). No slot of the game is connected
\* to forfeit, so the game is as before.
PlayerDisconnect(sender) ==
    /\ ~chessGame.players[sender].disconnected
    /\ chessGame' = handled([chessGame EXCEPT !.players[sender].disconnected = TRUE],
                            "disconnect", sender)
    /\ UNCHANGED <<adj, tvars, bvars>>

\* Tournament::stop -> ChessGame::stop.
GameStop ==
    /\ ~chessGame.m_finished
    /\ chessGame' = handled(gameStop(chessGame), "stop", NoSide)
    /\ UNCHANGED <<adj, tvars, bvars>>

\* playersReady -> ChessGame::finish, after a stop.
GameFinish ==
    /\ chessGame.finishConnected
    /\ chessGame' = handled(gameFinish(chessGame), "finish", NoSide)
    /\ UNCHANGED <<adj, tvars, bvars>>

NextGame ==
    \/ GameStart
    \/ GameStartGame
    \/ \E sender \in Sides : MoveMade(sender)
    \/ \E sender \in Sides : ResultClaim(sender)
    \/ \E sender \in Sides : PlayerDisconnect(sender)
    \/ GameStop
    \/ GameFinish

SpecGame == InitGame /\ [][NextGame]_vars

\* The step is the slot run for the signal of the sender.
Handles(signal, sender) ==
    /\ chessGame'.tick # chessGame.tick
    /\ chessGame'.last = <<signal, sender>>

\* C15 as stated: whenever a player disconnects while the game is in
\* progress, the game ends with a result of type Disconnection whose winner is
\* the opposite side.
C15_DisconnectEndsGame ==
    [][\A sender \in Sides :
          chessGame.m_gameInProgress /\ Handles("disconnect", sender)
              => /\ chessGame'.m_finished
                 /\ chessGame'.m_result = GameResult("Disconnection", opposite(sender))]_vars

\* C16: a move sent by the player who is not to move is ignored: the board,
\* the move list, the PGN, the side to move and the result are as before, no
\* turn is started, and one warning is written.
C16_OffTurnMoveIgnored ==
    [][\A sender \in Sides :
          Handles("moveMade", sender) /\ sender # chessGame.sideToMove
              => /\ chessGame'.boardPlies = chessGame.boardPlies
                 /\ chessGame'.m_moves = chessGame.m_moves
                 /\ chessGame'.pgn = chessGame.pgn
                 /\ chessGame'.sideToMove = chessGame.sideToMove
                 /\ chessGame'.m_result = chessGame.m_result
                 /\ chessGame'.m_gameInProgress = chessGame.m_gameInProgress
                 /\ chessGame'.turns = chessGame.turns
                 /\ chessGame'.warnings = chessGame.warnings + 1]_vars

\* The player not to move has just sent a move in a game with moves played.
C16_Witness ==
    /\ chessGame.last[1] = "moveMade" /\ chessGame.last[2] # chessGame.sideToMove
    /\ chessGame.warnings > 0
    /\ chessGame.pgn.moves > 0
    /\ chessGame.boardPlies > 0
    /\ chessGame.m_gameInProgress

-----------------------------------------------------------------------------
(* gameadjudicator.cpp: the adjudicator of one game *)

\* A game with the draw rule is followed for MaxDrawPlies plies, a game with
\* the resign rule for MaxResignPlies plies.
MaxDrawPlies == 114
MaxResignPlies == 12

\* A game with a maximum length is followed for MaxLengthPlies plies.
MaxLengthPlies == 10

\* The scores an engine reports with a move, around the thresholds of the
\* rules, and the search depths (0 for a book move).
EvalScores == {-600, -500, -499, -11, -10, 10, 11, 499, 500}
EvalDepths == {0, 1}

MoveEvaluation(score, depth) == [score |-> score, depth |-> depth]

qAbs(x) == IF x < 0 THEN -x ELSE x

\* GameAdjudicator::GameAdjudicator (lines 22-38). With the members come the
\* board the adjudicator is shown (plyCount) and what the evaluations so far
\* were: lowRun, agreedLow, agreedHigh for each side, quietRun, quietAfter,
\* lastDepth and lastIrreversible.
NewGameAdjudicator ==
    [m_drawMoveNum |-> 0, m_drawMoveCount |-> 0, m_drawScore |-> 0, m_drawScoreCount |-> 0,
     m_resignMoveCount |-> 0, m_resignScore |-> 0, m_maxGameLength |-> 0,
     m_tbEnabled |-> FALSE, m_tcecAdjudication |-> FALSE,
     m_resignScoreCount |-> [s \in Sides |-> 0],
     m_resignWinnerScoreCount |-> [s \in Sides |-> 0],
     m_result |-> NoGameResult,
     plyCount |-> 0,
     lowRun |-> [s \in Sides |-> 0],
     agreedLow |-> [s \in Sides |-> 0],
     agreedHigh |-> [s \in Sides |-> 0],
     quietRun |-> 0, quietAfter |-> 0, interrupted |-> FALSE,
     lastDepth |-> 0, lastIrreversible |-> FALSE]

\* GameAdjudicator::setDrawThreshold (lines 40-49).
setDrawThreshold(a, moveNumber, moveCount, score) ==
    [a EXCEPT !.m_drawMoveNum = moveNumber, !.m_drawMoveCount = moveCount,
              !.m_drawScore = score, !.m_drawScoreCount = 0]

\* GameAdjudicator::setResignThreshold (lines 51-61).
setResignThreshold(a, moveCount, score) ==
    [a EXCEPT !.m_resignMoveCount = moveCount, !.m_resignScore = score,
              !.m_resignScoreCount = [s \in Sides |-> 0],
              !.m_resignWinnerScoreCount = [s \in Sides |-> 0]]

\* GameAdjudicator::setMaximumGameLength (lines 62-66).
setMaximumGameLength(a, moveCount) == [a EXCEPT !.m_maxGameLength = moveCount]

\* GameAdjudicator::setTablebaseAdjudication (lines 68-71).
setTablebaseAdjudication(a, enable) == [a EXCEPT !.m_tbEnabled = enable]

\* GameAdjudicator::setTcecAdjudication (lines 74-77).
setTcecAdjudication(a, enable) == [a EXCEPT !.m_tcecAdjudication = enable]

\* GameAdjudicator::resetDrawMoveCount.
resetDrawMoveCount(a) == [a EXCEPT !.m_drawScoreCount = 0]

\* The board after a move: the side to move, the plies played, whether the
\* move was irreversible (reversibleMoveCount() == 0) and the tablebase result.
BoardAfter(plyCount, irreversible, tablebaseResult) ==
    [sideToMove |-> IF plyCount % 2 = 0 THEN "white" ELSE "black",
     plyCount |-> plyCount, irreversible |-> irreversible,
     tablebaseResult |-> tablebaseResult]

\* The draw rule with a run of draw_move_count plies, not twice as many.
drawAdjudication_HalfRun(a, board, eval) ==
    IF a.m_drawMoveNum <= 0 \/ (a.m_tcecAdjudication /\ board.irreversible)
    THEN [a |-> a, returned |-> FALSE]
    ELSE LET a1 == [a EXCEPT !.m_drawScoreCount =
                        IF qAbs(eval.score) <= a.m_drawScore THEN @ + 1 ELSE 0]
         IN IF board.plyCount \div 2 >= a1.m_drawMoveNum
               /\ a1.m_drawScoreCount >= a1.m_drawMoveCount
            THEN [a |-> [a1 EXCEPT !.m_result = GameResult("Adjudication", NoSide)],
                  returned |-> TRUE]
            ELSE [a |-> a1, returned |-> FALSE]

\* The draw adjudication of addEval (lines 98-118): the adjudicator it leaves
\* and whether addEval returns from it.
drawAdjudication(a, board, eval) ==
    IF a.m_drawMoveNum <= 0 \/ (a.m_tcecAdjudication /\ board.irreversible)
    THEN [a |-> a, returned |-> FALSE]
    ELSE LET a1 == [a EXCEPT !.m_drawScoreCount =
                        IF qAbs(eval.score) <= a.m_drawScore THEN @ + 1 ELSE 0]
         IN IF board.plyCount \div 2 >= a1.m_drawMoveNum
               /\ a1.m_drawScoreCount >= a1.m_drawMoveCount * 2
            THEN [a |-> [a1 EXCEPT !.m_result = GameResult("Adjudication", NoSide)],
                  returned |-> TRUE]
            ELSE [a |-> a1, returned |-> FALSE]

\* The TCEC resign rule deciding on the count of the losing side alone.
tcecResign_LoserOnly(a, side, eval) ==
    LET a1 == IF eval.score <= a.m_resignScore
              THEN [a EXCEPT !.m_resignScoreCount[side] = @ + 1,
                             !.m_resignWinnerScoreCount[side] = 0]
              ELSE IF eval.score >= -a.m_resignScore
              THEN [a EXCEPT !.m_resignWinnerScoreCount[side] = @ + 1,
                             !.m_resignScoreCount[side] = 0]
              ELSE [a EXCEPT !.m_resignScoreCount[side] = 0,
                             !.m_resignWinnerScoreCount[side] = 0]
    IN IF a1.m_resignScoreCount[side] >= a1.m_resignMoveCount
       THEN [a1 EXCEPT !.m_result = GameResult("Adjudication", opposite(side))]
       ELSE IF a1.m_resignScoreCount[opposite(side)] >= a1.m_resignMoveCount
       THEN [a1 EXCEPT !.m_result = GameResult("Adjudication", side)]
       ELSE a1

\* The resign adjudication of addEval under TCEC adjudication (lines 123-144).
tcecResign(a, side, eval) ==
    LET a1 == IF eval.score <= a.m_resignScore
              THEN [a EXCEPT !.m_resignScoreCount[side] = @ + 1,
                             !.m_resignWinnerScoreCount[side] = 0]
              ELSE IF eval.score >= -a.m_resignScore
              THEN [a EXCEPT !.m_resignWinnerScoreCount[side] = @ + 1,
                             !.m_resignScoreCount[side] = 0]
              ELSE [a EXCEPT !.m_resignScoreCount[side] = 0,
                             !.m_resignWinnerScoreCount[side] = 0]
    IN IF a1.m_resignScoreCount[side] >= a1.m_resignMoveCount
          /\ a1.m_resignWinnerScoreCount[opposite(side)] >= a1.m_resignMoveCount
       THEN [a1 EXCEPT !.m_result = GameResult("Adjudication", opposite(side))]
       ELSE IF a1.m_resignWinnerScoreCount[side] >= a1.m_resignMoveCount
               /\ a1.m_resignScoreCount[opposite(side)] >= a1.m_resignMoveCount
       THEN [a1 EXCEPT !.m_result = GameResult("Adjudication", side)]
       ELSE a1

\* The plain resign rule asking for one move more than resign_move_count.
plainResign_OneMore(a, side, eval) ==
    LET a1 == [a EXCEPT !.m_resignScoreCount[side] =
                  IF eval.score <= a.m_resignScore THEN @ + 1 ELSE 0]
    IN IF a1.m_resignScoreCount[side] > a1.m_resignMoveCount
       THEN [a1 EXCEPT !.m_result = GameResult("Adjudication", opposite(side))]
       ELSE a1

\* The resign adjudication of addEval without TCEC adjudication (lines 146-156).
plainResign(a, side, eval) ==
    LET a1 == [a EXCEPT !.m_resignScoreCount[side] =
                  IF eval.score <= a.m_resignScore THEN @ + 1 ELSE 0]
    IN IF a1.m_resignScoreCount[side] >= a1.m_resignMoveCount
       THEN [a1 EXCEPT !.m_result = GameResult("Adjudication", opposite(side))]
       ELSE a1

\* The end of addEval where a result of the resign rule is kept.
resignAndLength_ResignKept(a, board, side, eval) ==
    LET a1 == IF a.m_resignMoveCount <= 0 THEN a
              ELSE IF a.m_tcecAdjudication THEN tcecResign(a, side, eval)
              ELSE plainResign(a, side, eval)
    IN IF isNone(a1.m_result)
          /\ a1.m_maxGameLength > 0 /\ board.plyCount >= 2 * a1.m_maxGameLength
       THEN [a1 EXCEPT !.m_result = GameResult("Adjudication", NoSide)]
       ELSE a1

\* The end of addEval where the game may be one ply longer than the limit.
resignAndLength_OnePlyMore(a, board, side, eval) ==
    LET a1 == IF a.m_resignMoveCount <= 0 THEN a
              ELSE IF a.m_tcecAdjudication THEN tcecResign(a, side, eval)
              ELSE plainResign(a, side, eval)
    IN IF a1.m_maxGameLength > 0 /\ board.plyCount > 2 * a1.m_maxGameLength
       THEN [a1 EXCEPT !.m_result = GameResult("Adjudication", NoSide)]
       ELSE a1

\* The end of addEval: resign adjudication and game length (lines 120-167).
resignAndLength(a, board, side, eval) ==
    LET a1 == IF a.m_resignMoveCount <= 0 THEN a
              ELSE IF a.m_tcecAdjudication THEN tcecResign(a, side, eval)
              ELSE plainResign(a, side, eval)
    IN IF a1.m_maxGameLength > 0 /\ board.plyCount >= 2 * a1.m_maxGameLength
       THEN [a1 EXCEPT !.m_result = GameResult("Adjudication", NoSide)]
       ELSE a1

\* addEval where a move with depth <= 0 resets no counter.
addEval_ForcedKeepsCounts(a, board, eval) ==
    LET side == opposite(board.sideToMove)
        a0 == IF a.m_tbEnabled THEN [a EXCEPT !.m_result = board.tablebaseResult] ELSE a
    IN IF a.m_tbEnabled /\ ~isNone(a0.m_result) THEN a0
       ELSE IF eval.depth <= 0
            THEN a0
       ELSE LET d == drawAdjudication(a0, board, eval)
            IN IF d.returned THEN d.a
               ELSE resignAndLength(d.a, board, side, eval)

\* GameAdjudicator::addEval (lines 79-168).
addEval(a, board, eval) ==
    LET side == opposite(board.sideToMove)
        a0 == IF a.m_tbEnabled THEN [a EXCEPT !.m_result = board.tablebaseResult] ELSE a
    IN IF a.m_tbEnabled /\ ~isNone(a0.m_result) THEN a0
       ELSE IF eval.depth <= 0
            THEN [a0 EXCEPT !.m_drawScoreCount = 0, !.m_resignScoreCount[side] = 0]
       ELSE LET d == drawAdjudication(a0, board, eval)
            IN IF d.returned THEN d.a
               ELSE resignAndLength(d.a, board, side, eval)

\* onMoveMade without the reset of the draw counter.
evaluateMove_NoReset(a, board, eval) == addEval(a, board, eval)

\* What ChessGame::onMoveMade does with the adjudicator after a move that did
\* not end the game on the board (chessgame.cpp 418-424).
evaluateMove(a, board, eval) ==
    addEval(IF board.irreversible THEN resetDrawMoveCount(a) ELSE a, board, eval)

\* What the evaluations so far were, after the move of side. For the resign
\* rule: lowRun counts the last moves of the side in a row that had a score at
\* or below resign_score, agreedLow and agreedHigh the last evaluated moves of
\* the side in a row with a score at or below resign_score, and at or above
\* -resign_score. For the draw rule: quietAfter counts the last plies in a row,
\* at or after move draw_move_number, with |score| <= draw_score; quietRun the
\* last plies in a row that were searched, had |score| <= draw_score and were
\* not reset by an irreversible move. lastDepth is the search depth of the
\* move, lastIrreversible whether the move was irreversible.
recorded(a, board, side, eval) ==
    LET searched == eval.depth > 0
        low == eval.score <= a.m_resignScore
        high == eval.score >= -a.m_resignScore
        quiet == qAbs(eval.score) <= a.m_drawScore
        resign == a.m_resignMoveCount > 0
        draw == a.m_drawMoveNum > 0
    IN [a EXCEPT
          !.plyCount = board.plyCount,
          !.lowRun[side] = IF resign /\ searched /\ low THEN @ + 1 ELSE 0,
          !.agreedLow[side] = IF ~resign THEN 0 ELSE IF ~searched THEN @
                              ELSE IF low THEN @ + 1 ELSE 0,
          !.agreedHigh[side] = IF ~resign THEN 0 ELSE IF ~searched THEN @
                               ELSE IF high THEN @ + 1 ELSE 0,
          !.quietAfter = IF draw /\ quiet /\ board.plyCount \div 2 >= a.m_drawMoveNum
                         THEN @ + 1 ELSE 0,
          !.quietRun = IF ~draw \/ ~searched \/ ~quiet THEN 0
                       ELSE IF board.irreversible
                            THEN (IF a.m_tcecAdjudication THEN 0 ELSE 1)
                       ELSE @ + 1,
          !.interrupted = @ \/ (draw /\ ~quiet /\ a.quietRun > 0
                                /\ board.plyCount \div 2 >= a.m_drawMoveNum),
          !.lastDepth = eval.depth,
          !.lastIrreversible = board.irreversible]

\* The adjudicators of the games followed: the draw rule with move number 40,
\* move count 8 and score 10, or the resign rule with move count 4 and score
\* -500, each with and without TCEC adjudication.
DrawRuleAdjudicators ==
    {setTcecAdjudication(setDrawThreshold(NewGameAdjudicator, 40, 8, 10), tcec) :
        tcec \in BOOLEAN}

ResignRuleAdjudicators ==
    {setTcecAdjudication(setResignThreshold(NewGameAdjudicator, 4, -500), tcec) :
        tcec \in BOOLEAN}

\* The adjudicators with a maximum game length of 4 moves: alone, with
\* tablebase adjudication, and with the resign rule (move count 4, score -500)
\* with and without TCEC adjudication.
LengthRuleAdjudicators ==
    {setMaximumGameLength(NewGameAdjudicator, 4),
     setTablebaseAdjudication(setMaximumGameLength(NewGameAdjudicator, 4), TRUE)}
    \cup {setMaximumGameLength(a, 4) : a \in ResignRuleAdjudicators}

\* What the tablebases answer for the position after a move: nothing, a draw
\* or a win of one side.
TablebaseResults ==
    {NoGameResult} \cup {GameResult("Adjudication", w) : w \in Sides \cup {NoSide}}

InitAdjudicator ==
    /\ adj \in DrawRuleAdjudicators \cup ResignRuleAdjudicators \cup LengthRuleAdjudicators
    /\ chessGame = <<>>
    /\ cfg = <<>> /\ tour = <<>> /\ gm = <<>> /\ hist = <<>>
    /\ bgraph = Graph(0, {}) /\ bmatching = <<>> /\ bphase = "unused"
    /\ baugments = 0 /\ bassert = FALSE

\* The plies a game of the adjudicator is followed for.
PliesFollowed(a) ==
    IF a.m_drawMoveNum > 0 THEN MaxDrawPlies
    ELSE IF a.m_maxGameLength > 0 THEN MaxLengthPlies
    ELSE MaxResignPlies

\* ChessGame::onMoveMade -> GameAdjudicator::addEval, for a move after which
\* the board has no result. The game ends with the first result.
AddEval ==
    /\ isNone(adj.m_result)
    /\ adj.plyCount < PliesFollowed(adj)
    /\ \E score \in EvalScores : \E depth \in EvalDepths : \E irreversible \in BOOLEAN :
       \E tablebaseResult \in (IF adj.m_tbEnabled THEN TablebaseResults ELSE {NoGameResult}) :
          LET board == BoardAfter(adj.plyCount + 1, irreversible, tablebaseResult)
              eval == MoveEvaluation(score, depth)
          IN adj' = recorded(evaluateMove(adj, board, eval), board,
                             opposite(board.sideToMove), eval)
    /\ UNCHANGED <<chessGame, tvars, bvars>>

NextAdjudicator == AddEval

SpecAdjudicator == InitAdjudicator /\ [][NextAdjudicator]_vars

\* The adjudicator has the resign rule alone, with or without TCEC
\* adjudication, or the draw rule alone.
ResignRuleAlone(tcec) ==
    /\ adj.m_resignMoveCount > 0 /\ adj.m_tcecAdjudication = tcec
    /\ adj.m_drawMoveNum = 0 /\ adj.m_maxGameLength = 0 /\ ~adj.m_tbEnabled

DrawRuleAlone ==
    /\ adj.m_drawMoveNum > 0
    /\ adj.m_resignMoveCount = 0 /\ adj.m_maxGameLength = 0 /\ ~adj.m_tbEnabled

\* C18: under the TCEC resign rule a game is adjudicated as a win only when
\* both sides agree: the last resign_move_count evaluated moves of the loser
\* all had a score at or below resign_score, and the last resign_move_count
\* evaluated moves of the winner all had a score at or above -resign_score. A
\* sample that contradicts resets the count: a count never exceeds the number
\* of agreeing samples in a row.
C18_TcecResignNeedsBothSides ==
    ResignRuleAlone(TRUE) =>
        /\ \A s \in Sides :
              /\ adj.m_resignScoreCount[s] <= adj.agreedLow[s]
              /\ adj.m_resignWinnerScoreCount[s] <= adj.agreedHigh[s]
        /\ ~isNone(adj.m_result) =>
              /\ adj.m_result.type = "Adjudication" /\ adj.m_result.winner \in Sides
              /\ adj.agreedLow[opposite(adj.m_result.winner)] >= adj.m_resignMoveCount
              /\ adj.agreedHigh[adj.m_result.winner] >= adj.m_resignMoveCount

\* White wins by the TCEC rule after an earlier sample that contradicted.
C18_Witness ==
    /\ ResignRuleAlone(TRUE)
    /\ adj.m_result = GameResult("Adjudication", "white")
    /\ adj.plyCount > 2 * adj.m_resignMoveCount

C20_QuietPliesDraw ==
    DrawRuleAlone =>
        (adj.quietAfter >= 2 * adj.m_drawMoveCount
            => adj.m_result = GameResult("Adjudication", NoSide))

\* C20: with draw_move_number 40, draw_move_count 8 and draw_score 10, the
\* game is drawn by adjudication exactly when, at move 40 or later, the last 16
\* plies in a row were each searched (depth >= 1) with |score| <= 10, none of
\* them after the first an irreversible move (none at all under TCEC
\* adjudication). The draw counter is the length of that run: a ply with
\* |score| = 11, a ply with depth <= 0 or an irreversible move starts the run
\* anew, so that a full new run is needed.
C20_DrawAfterQuietRun ==
    DrawRuleAlone =>
        /\ adj.m_drawScoreCount = adj.quietRun
        /\ adj.m_result = GameResult("Adjudication", NoSide)
              <=> /\ adj.quietRun >= 2 * adj.m_drawMoveCount
                  /\ adj.plyCount \div 2 >= adj.m_drawMoveNum
        /\ isNone(adj.m_result) \/ adj.m_result = GameResult("Adjudication", NoSide)

\* A draw after a run that a loud ply interrupted after move 40.
C20_Witness ==
    /\ DrawRuleAlone
    /\ adj.m_result = GameResult("Adjudication", NoSide)
    /\ adj.interrupted
    /\ adj.quietRun = 2 * adj.m_drawMoveCount

\* The adjudicator has the plain resign rule and a maximum game length, and
\* nothing else.
ResignAndLengthRules ==
    /\ adj.m_resignMoveCount > 0 /\ ~adj.m_tcecAdjudication
    /\ adj.m_maxGameLength > 0
    /\ adj.m_drawMoveNum = 0 /\ ~adj.m_tbEnabled

lastMover(a) == IF a.plyCount % 2 = 1 THEN "white" ELSE "black"

\* The step is an addEval call for a move with depth <= 0 that the tablebases
\* did not decide.
ForcedMoveStep ==
    /\ adj'.plyCount = adj.plyCount + 1
    /\ adj'.lastDepth <= 0
    /\ isNone(adj'.m_result)

\* C22 as stated: an addEval call for a move with depth <= 0 advances no
\* counter and resets every counter kept for the side that made the move, the
\* counts of the TCEC resign rule included.
C22_ForcedMoveResetsAll ==
    [][ForcedMoveStep =>
          /\ adj'.m_drawScoreCount = 0
          /\ adj'.m_resignScoreCount[lastMover(adj')] = 0
          /\ adj'.m_resignWinnerScoreCount[lastMover(adj')] = 0
          /\ \A s \in Sides \ {lastMover(adj')} :
                /\ adj'.m_resignScoreCount[s] = adj.m_resignScoreCount[s]
                /\ adj'.m_resignWinnerScoreCount[s] = adj.m_resignWinnerScoreCount[s]]_vars

\* C22: an addEval call for a move with depth <= 0 advances no counter; it
\* sets the draw counter and the resign count of the side that made the move
\* to 0, and leaves that side's winner count of the TCEC resign rule, and both
\* counts of the other side, as they were.
C22_ForcedMoveResets ==
    [][ForcedMoveStep =>
          /\ adj'.m_drawScoreCount = 0
          /\ adj'.m_resignScoreCount[lastMover(adj')] = 0
          /\ adj'.m_resignWinnerScoreCount[lastMover(adj')]
                = adj.m_resignWinnerScoreCount[lastMover(adj')]
          /\ \A s \in Sides \ {lastMover(adj')} :
                /\ adj'.m_resignScoreCount[s] = adj.m_resignScoreCount[s]
                /\ adj'.m_resignWinnerScoreCount[s] = adj.m_resignWinnerScoreCount[s]]_vars

\* After a move with depth <= 0 the side that made it still has the count of
\* its scores at or above -resign_score.
C22_Witness ==
    /\ adj.m_tcecAdjudication /\ adj.m_resignMoveCount > 0
    /\ adj.plyCount > 0 /\ adj.lastDepth <= 0 /\ isNone(adj.m_result)
    /\ adj.m_resignWinnerScoreCount[lastMover(adj)] > 0
    /\ adj.m_resignScoreCount[opposite(lastMover(adj))] > 0

C24_IrreversibleResetsDrawCount ==
    (adj.m_drawMoveNum > 0 /\ adj.m_tcecAdjudication) =>
        /\ adj.lastIrreversible => adj.m_drawScoreCount = 0
        /\ adj.m_drawScoreCount <= adj.quietRun
        /\ adj.m_result = GameResult("Adjudication", NoSide)
              => /\ adj.quietRun >= 2 * adj.m_drawMoveCount
                 /\ ~adj.lastIrreversible

\* After move draw_move_number, 2 * draw_move_count plies in a row had a score
\* within draw_score, the last of them an irreversible move: no draw.
C24_Witness ==
    /\ adj.m_drawMoveNum > 0 /\ adj.m_tcecAdjudication
    /\ adj.lastIrreversible /\ adj.lastDepth > 0
    /\ adj.quietAfter >= 2 * adj.m_drawMoveCount
    /\ isNone(adj.m_result)

-----------------------------------------------------------------------------
(* The scores of a tournament, game by game *)

\* A round-robin of three players and a knockout of two players with two
\* games per encounter, both going on after a crash.
ScoreSettings ==
    {Settings("round-robin", 3, 1, 1, FALSE, 2, TRUE, FALSE, 0, <<>>),
     Settings("knockout", 2, 2, 1, FALSE, 1, TRUE, FALSE, 0, <<>>)}

\* The history of a scored run also keeps the finished games in the order they
\* finished, each with its players and its result.
ScoreHistory(c) == NewHistory(c) @@ [finished |-> <<>>]

InitScore ==
    /\ cfg \in ScoreSettings
    /\ tour = NewTournament(cfg)
    /\ gm = NewGameManager
    /\ hist = ScoreHistory(cfg)
    /\ bgraph = Graph(0, {}) /\ bmatching = <<>> /\ bphase = "unused"
    /\ baugments = 0 /\ bassert = FALSE
    /\ adj = <<>> /\ chessGame = <<>>

\* ChessGame::finished -> Tournament::onGameFinished, for a game that ended
\* with a winner or a draw.
ScoreGameFinished ==
    \E g \in gm.active : \E result \in NormalResults \cup CrashResults :
        /\ tour' = onGameFinished(tour, cfg, g, result, "Continue")
        /\ gm' = [gm EXCEPT !.active = @ \ {g}, !.closing = Append(@, g)]
        /\ hist' = [hist EXCEPT
               !.penalties = IF isCrash(result) THEN @ + 1 ELSE @,
               !.finished = Append(@, [white |-> gameDataOf(tour, g).whiteIndex,
                                       black |-> gameDataOf(tour, g).blackIndex,
                                       result |-> result])]
        /\ UNCHANGED <<cfg, bvars, gvars>>

NextScore ==
    \/ Start
    \/ Ready
    \/ ScoreGameFinished
    \/ GameDestroyed

SpecScore == InitScore /\ [][NextScore]_vars

\* What the finished game f brings to player p.
scoreOf(f, p) ==
    IF winner(f.result) = "white"
    THEN (IF p = f.white THEN 2 ELSE IF p = f.black /\ isCrash(f.result) THEN -1 ELSE 0)
    ELSE IF winner(f.result) = "black"
    THEN (IF p = f.black THEN 2 ELSE IF p = f.white /\ isCrash(f.result) THEN -1 ELSE 0)
    ELSE IF isDraw(f.result) /\ p \in {f.white, f.black} THEN 1
    ELSE 0

\* C25: when a game finishes with a winner, the winner's score goes up by 2
\* and the loser's score stays, or goes down by 1 when the game ended by
\* disconnection or stalled connection; when a game is drawn the score of each
\* of its players goes up by 1. No other score changes.
C25_ScoreOfFinishedGame ==
    [][Len(hist'.finished) > Len(hist.finished) =>
          \A p \in Players(cfg) :
              tour'.score[p] = tour.score[p] + scoreOf(hist'.finished[Len(hist'.finished)], p)]_vars

\* A player lost a game by disconnection or stalled connection after a draw:
\* the score is 1 - 1 = 0, and the winner of that game has 2 or more.
C25_Witness ==
    \E i, j \in 1 .. Len(hist.finished) :
        /\ i < j /\ j = Len(hist.finished)
        /\ isDraw(hist.finished[i].result)
        /\ isCrash(hist.finished[j].result) /\ winner(hist.finished[j].result) = "black"
        /\ hist.finished[j].white \in {hist.finished[i].white, hist.finished[i].black}
        /\ tour.score[hist.finished[j].white] = 0
        /\ tour.score[hist.finished[j].black] >= 2

\* C26: for every pair assigned in a Swiss round with an odd gamesPerEncounter,
\* taking whiteGameDiff and the scores as they are when the round is paired: if
\* the whiteGameDiff values of the two players differ the player with the
\* lower value has white; otherwise, if their scores differ, the player with
\* the higher score has black.
C26_ColourOfSwissPair ==
    [][(cfg.type = "swiss-tcec" /\ cfg.gpe % 2 = 1 /\ tour.started
        /\ tour'.m_round = tour.m_round + 1) =>
          \A i \in 1 .. Len(tour'.m_pairings) :
              LET white == tour'.m_pairings[i][1]
                  black == tour'.m_pairings[i][2]
                  whiteDiff == tour.m_playerStats[white].whiteGameDiff
                  blackDiff == tour.m_playerStats[black].whiteGameDiff
              IN white # black =>
                    /\ whiteDiff # blackDiff => whiteDiff < blackDiff
                    /\ (whiteDiff = blackDiff /\ tour.score[white] # tour.score[black])
                          => tour.score[white] < tour.score[black]]_vars

\* Round 3 of four players has just been paired: every player had played one
\* game with each colour, and in one pair the player with black has the higher
\* score.
C26_Witness ==
    /\ cfg.type = "swiss-tcec" /\ cfg.n = 4 /\ cfg.gpe = 1
    /\ tour.m_round = 3 /\ tour.m_finishedGameCount = 4 /\ ~tour.pairingAssert
    /\ \E i \in 1 .. Len(tour.m_pairings) :
          /\ tour.m_playerStats[tour.m_pairings[i][1]].whiteGameDiff = 1
          /\ tour.m_playerStats[tour.m_pairings[i][2]].whiteGameDiff = -1
          /\ tour.score[tour.m_pairings[i][1]] < tour.score[tour.m_pairings[i][2]]

-----------------------------------------------------------------------------
(* The Berger schedule of a round-robin *)

\* Round-robins of 2 to MaxBergerPlayers players are followed for two cycles.
MaxBergerPlayers == 6

BergerSettings ==
    {Settings("round-robin", n, 1, 2, TRUE, 1, TRUE, FALSE, 0, <<>>) :
        n \in 2 .. MaxBergerPlayers}

\* The history of a Berger run keeps the games in the order they were started,
\* each as <<white, black>>, and the round each was started in.
BergerHistory(c) == ScheduleHistory(c) @@ [rounds |-> <<>>]

InitBerger ==
    /\ cfg \in BergerSettings
    /\ tour = NewTournament(cfg)
    /\ gm = NewGameManager
    /\ hist = BergerHistory(cfg)
    /\ bgraph = Graph(0, {}) /\ bmatching = <<>> /\ bphase = "unused"
    /\ baugments = 0 /\ bassert = FALSE
    /\ adj = <<>> /\ chessGame = <<>>

\* The history after the games startGame added between t and t2.
started(h, t, t2) ==
    [h EXCEPT !.games = @ \o gamesStarted(t, t2),
              !.rounds = @ \o [i \in 1 .. Len(gamesStarted(t, t2)) |-> t2.m_round]]

\* EngineMatch::start -> Tournament::start.
BergerStart ==
    /\ ~tour.started
    /\ tour' = start(tour, cfg)
    /\ gm' = [gm EXCEPT !.active = enqueued(tour, tour')]
    /\ hist' = started(hist, tour, tour')
    /\ UNCHANGED <<cfg, bvars, gvars>>

\* GameManager::ready -> Tournament::startNextGame.
BergerReady ==
    /\ tour.started /\ tour.readyConnected
    /\ Cardinality(gm.active) < cfg.conc
    /\ tour' = startNextGame(tour, cfg)
    /\ tour' # tour
    /\ gm' = [gm EXCEPT !.active = @ \cup enqueued(tour, tour')]
    /\ hist' = started(hist, tour, tour')
    /\ UNCHANGED <<cfg, bvars, gvars>>

\* ChessGame::finished -> Tournament::onGameFinished, for a drawn game: the
\* schedule of a round-robin does not read the results.
BergerGameFinished ==
    \E g \in gm.active :
        /\ tour' = onGameFinished(tour, cfg, g, "1/2-1/2", "Continue")
        /\ gm' = [gm EXCEPT !.active = @ \ {g}, !.closing = Append(@, g)]
        /\ UNCHANGED <<cfg, hist, bvars, gvars>>

NextBerger ==
    \/ BergerStart
    \/ BergerReady
    \/ BergerGameFinished
    \/ GameDestroyed

SpecBerger == InitBerger /\ [][NextBerger]_vars


\* The games of cycle k (from 1) that were started, by their place in the
\* history, and whether the cycle is complete.
cycleGames(k) ==
    {i \in 1 .. Len(hist.games) : (i - 1) \div rrGamesPerCycle(cfg) = k - 1}

cycleComplete(k) == Len(hist.games) >= k * rrGamesPerCycle(cfg)

playersOf(i) == {hist.games[i][1], hist.games[i][2]}

\* C27: under the Berger schedule the games of round 1 are, in order, the
\* seats (0, count-1), (1, count-2), ... without the game of the empty seat of
\* an odd player count; no player has two games in one round; and in each
\* complete cycle of gamesPerCycle games every pair of players meets exactly
\* once.
C27_BergerRounds ==
    /\ \A i \in 1 .. Len(hist.games) :
          hist.rounds[i] = 1 =>
              hist.games[i] = <<i - 1 + (cfg.n % 2), rrCount(cfg) - i - (cfg.n % 2)>>
    /\ \A i, j \in 1 .. Len(hist.games) :
          (i < j /\ hist.rounds[i] = hist.rounds[j]) => playersOf(i) \cap playersOf(j) = {}
    /\ \A k \in 1 .. cfg.rm :
          cycleComplete(k) =>
              \A p, q \in Players(cfg) :
                  p < q => Cardinality({i \in cycleGames(k) : playersOf(i) = {p, q}}) = 1

\* Both cycles of five players, who play around an empty seat, are complete.
C27_Witness ==
    /\ cfg.n = 5 /\ cycleComplete(2)
    /\ hist.rounds[Len(hist.rounds)] = 10
    /\ tour.m_finished

\* The games among those of the set that player p has with white more than
\* with black.
whiteSurplus(p, games) ==
    Cardinality({i \in games : hist.games[i][1] = p})
    - Cardinality({i \in games : hist.games[i][2] = p})

encounterOf(t, i) == t.m_pairs[pairKey(t, hist.games[i][1], hist.games[i][2])]

encounterGames(i) ==
    Cardinality({j \in 1 .. Len(hist.games) : playersOf(j) = playersOf(i)})

\* The lead of an encounter, in points of 2 for a win and 1 for a draw.
lead(pr) ==
    IF pr.firstScore >= pr.secondScore THEN pr.firstScore - pr.secondScore
    ELSE pr.secondScore - pr.firstScore

\* An encounter is decided when the leader has more than gamesPerEncounter
\* points and leads by the margin.
decidedBy(pr, margin) ==
    /\ pr.firstScore > cfg.gpe \/ pr.secondScore > cfg.gpe
    /\ lead(pr) >= margin

\* A game is started after game Len(hist.games), all earlier games finished.
NextGameStarted == Len(hist.games) >= 1 /\ Len(hist'.games) = Len(hist.games) + 1

-----------------------------------------------------------------------------
(* The first round of a knockout *)

\* Knockouts of 3 to MaxBracketPlayers seeded players, one game per encounter.
MaxBracketPlayers == 7

BracketSettings ==
    {Settings("knockout", n, 1, 1, FALSE, 1, TRUE, FALSE, 0, <<>>) :
        n \in 3 .. MaxBracketPlayers}

InitBracket ==
    /\ cfg \in BracketSettings
    /\ tour = NewTournament(cfg)
    /\ gm = NewGameManager
    /\ hist = ScheduleHistory(cfg)
    /\ bgraph = Graph(0, {}) /\ bmatching = <<>> /\ bphase = "unused"
    /\ baugments = 0 /\ bassert = FALSE
    /\ adj = <<>> /\ chessGame = <<>>

SpecBracket == InitBracket /\ [][NextSchedule]_vars

\* The pairs of the first round, in the order of m_rounds.first().
firstRound == [k \in 1 .. Len(tour.m_rounds[1]) |-> tour.m_pairs[tour.m_rounds[1][k]]]

\* The BYEs a bracket of the player count needs.
byesNeeded(c) == bracketFor(1, c.n) - c.n

\* The players whose pair of the first round holds a BYE on the other side.
pairedWithBye ==
    {p \in Players(cfg) :
        \E k \in 1 .. Len(firstRound) :
            \/ firstRound[k].first = p /\ firstRound[k].second = NoPlayer
            \/ firstRound[k].second = p /\ firstRound[k].first = NoPlayer}

\* C30: in the first round of a knockout that needs b BYEs, exactly the b
\* best-seeded players (players 0 to b-1) are paired with a BYE.
C30_ByesToTopSeeds ==
    (cfg.type = "knockout" /\ tour.started) =>
        pairedWithBye = 0 .. byesNeeded(cfg) - 1


\* The pairs of the first round that hold the player.
pairsOfPlayer(p) ==
    {k \in 1 .. Len(firstRound) : firstRound[k].first = p \/ firstRound[k].second = p}

\* C39: in the first round of a started knockout every registered player is
\* in exactly one pair, and every pair holds at least one real player.
C39_EveryPlayerSeatedOnce ==
    (cfg.type = "knockout" /\ tour.started) =>
        /\ \A p \in Players(cfg) : Cardinality(pairsOfPlayer(p)) = 1
        /\ \A k \in 1 .. Len(firstRound) :
              firstRound[k].first # NoPlayer \/ firstRound[k].second # NoPlayer


-----------------------------------------------------------------------------
(* A knockout with players that crash *)

\* Seeded players S1, S2, S3, S4 of a knockout with best-of-2 encounters, whose
\* games end with a win on the board or with the loser's disconnection.
KnockoutStrikes == Settings("knockout", 4, 2, 1, FALSE, 1, TRUE, FALSE, 0, <<>>)

StrikeResults == {"1-0", "0-1", "1-0 disconnection", "0-1 disconnection"}

InitStrikes ==
    /\ cfg = KnockoutStrikes
    /\ tour = NewTournament(cfg)
    /\ gm = NewGameManager
    /\ hist = ScheduleHistory(cfg)
    /\ bgraph = Graph(0, {}) /\ bmatching = <<>> /\ bphase = "unused"
    /\ baugments = 0 /\ bassert = FALSE
    /\ adj = <<>> /\ chessGame = <<>>

\* ChessGame::finished -> Tournament::onGameFinished.
StrikeGameFinished ==
    \E g \in gm.active : \E result \in StrikeResults :
        /\ tour' = onGameFinished(tour, cfg, g, result, "Continue")
        /\ gm' = [gm EXCEPT !.active = @ \ {g}, !.closing = Append(@, g)]
        /\ hist' = [hist EXCEPT
               !.penalties = IF isCrash(result) THEN @ + 1 ELSE @,
               !.credited = [@ EXCEPT
                   ![gameDataOf(tour, g).whiteIndex] = @ + scoreChange(result)[1],
                   ![gameDataOf(tour, g).blackIndex] = @ + scoreChange(result)[2]]]
        /\ UNCHANGED <<cfg, bvars, gvars>>

NextStrikes ==
    \/ ScheduleStart
    \/ ScheduleReady
    \/ StrikeGameFinished
    \/ GameDestroyed

SpecStrikes == InitStrikes /\ [][NextStrikes]_vars

\* The answer of needMoreGames for the pairs of the last round from the pair's
\* own scores and crashes, m_should_we_stop_global being false: the position
\* of the first pair that needs more games, 0 when none does.
firstNeedyOwn ==
    LET needy == {i \in 1 .. Len(lastRound(tour)) :
                     needMoreGames(tour, cfg, tour.m_pairs[lastRound(tour)[i]], FALSE).need}
    IN IF needy = {} THEN 0 ELSE Min(needy)

\* C38: the pair that nextPair and areAllGamesFinished find in need of more
\* games, with m_should_we_stop_global as the evaluations before left it, is
\* the pair found from each pair's own scores and crashes.
C38_NeedIsThePairsOwn ==
    (cfg.type = "knockout" /\ tour.started) =>
        firstNeedy(tour, cfg, 1, tour.m_should_we_stop_global).found = firstNeedyOwn


-----------------------------------------------------------------------------
(* enginematch.cpp: the crosstable *)

\* The crosstable of three engines is followed over MaxCrossGames finished
\* games.
MaxCrossGames == 3

CrossPlayers == 0 .. 2

\* The matchProgress list of the tournament file, each entry as
\* <<white, black, result>>, and crashes() of each player.
InitCrossTable ==
    /\ cfg = Settings("round-robin", 3, 2, 1, FALSE, 1, TRUE, FALSE, 0, <<>>)
    /\ hist = [progress |-> <<>>, crashes |-> [p \in CrossPlayers |-> 0]]
    /\ tour = <<>> /\ gm = <<>>
    /\ bgraph = Graph(0, {}) /\ bmatching = <<>> /\ bphase = "unused"
    /\ baugments = 0 /\ bassert = FALSE
    /\ adj = <<>> /\ chessGame = <<>>

\* A game finishes on the board: its result is recorded in matchProgress.
CrossGameFinished ==
    \E white, black \in CrossPlayers : \E result \in NormalResults :
        /\ white # black
        /\ Len(hist.progress) < MaxCrossGames
        /\ hist' = [hist EXCEPT !.progress = Append(@, <<white, black, result>>)]
        /\ UNCHANGED <<cfg, tour, gm, bvars, gvars>>

\* A game finishes with the loser's disconnection: the result is recorded and
\* the loser has one crash more.
CrossGameCrashed ==
    \E white, black \in CrossPlayers : \E result \in {"1-0", "0-1"} :
        /\ white # black
        /\ Len(hist.progress) < MaxCrossGames
        /\ hist' = [hist EXCEPT
               !.progress = Append(@, <<white, black, result>>),
               !.crashes[IF result = "1-0" THEN black ELSE white] = @ + 1]
        /\ UNCHANGED <<cfg, tour, gm, bvars, gvars>>

NextCrossTable == CrossGameFinished \/ CrossGameCrashed

SpecCrossTable == InitCrossTable /\ [][NextCrossTable]_vars

\* generateCrossTable (lines 511-518): a player is disqualified at the
\* tournament's strikes; the builder's strikes are 0.
disqualified(h, p) == Strikes > 0 /\ h.crashes[p] >= Strikes

\* The entries of matchProgress that count (lines 544-607): a result, and no
\* disqualified player.
counted(h) ==
    {i \in 1 .. Len(h.progress) :
        ~disqualified(h, h.progress[i][1]) /\ ~disqualified(h, h.progress[i][2])}

\* The points of player p in entry i, doubled: 2 for a win, 1 for a draw.
points2(h, i, p) ==
    LET e == h.progress[i]
    IN IF e[3] = "1-0" THEN (IF e[1] = p THEN 2 ELSE 0)
       ELSE IF e[3] = "0-1" THEN (IF e[2] = p THEN 2 ELSE 0)
       ELSE 1

gamesOf(h, p) == {i \in counted(h) : p \in {h.progress[i][1], h.progress[i][2]}}

winsOf(h, p) == {i \in gamesOf(h, p) : points2(h, i, p) = 2}

score2(h, p) == SumOver([i \in gamesOf(h, p) |-> points2(h, i, p)], gamesOf(h, p))

opponent(h, i, p) == IF h.progress[i][1] = p THEN h.progress[i][2] ELSE h.progress[i][1]

\* m_head2head[q] of player p (lines 556-561, 576-581): wins against q less
\* losses against q.
head2head(h, p, q) ==
    Cardinality({i \in winsOf(h, p) : opponent(h, i, p) = q})
    - Cardinality({i \in winsOf(h, q) : opponent(h, i, q) = p})

\* The Neustadtl score (lines 609-640), times four: the score of each beaten
\* opponent and half the score of each opponent drawn with.
neustadtl4(h, p) ==
    IF disqualified(h, p) THEN 0
    ELSE SumOver([i \in gamesOf(h, p) |-> points2(h, i, p) * score2(h, opponent(h, i, p))],
                 gamesOf(h, p))

\* The row of player p as sortCrossTableDataByScore reads it.
CrossTableData(h, p) ==
    [m_engineName |-> p,
     m_disqualified |-> disqualified(h, p),
     m_score |-> score2(h, p),
     m_strikes |-> h.crashes[p],
     m_games |-> Cardinality(gamesOf(h, p)),
     m_wins |-> Cardinality(winsOf(h, p)),
     m_neustadtlScore |-> neustadtl4(h, p),
     m_head2head |-> [q \in CrossPlayers |-> head2head(h, p, q)]]

\* sortCrossTableDataByScore (lines 471-497).
sortCrossTableDataByScore(s1, s2) ==
    IF s1.m_disqualified # s2.m_disqualified THEN s2.m_disqualified
    ELSE IF s1.m_score # s2.m_score THEN s1.m_score > s2.m_score
    ELSE IF s1.m_strikes # s2.m_strikes THEN s1.m_strikes < s2.m_strikes
    ELSE IF s1.m_games # s2.m_games THEN s1.m_games < s2.m_games
    ELSE IF s1.m_head2head[s2.m_engineName] # 0 THEN s1.m_head2head[s2.m_engineName] > 0
    ELSE IF s1.m_wins # s2.m_wins THEN s1.m_wins > s2.m_wins
    ELSE s1.m_neustadtlScore > s2.m_neustadtlScore

crossTableRows == {CrossTableData(hist, p) : p \in CrossPlayers}

\* C40: over the rows of a crosstable the ranking comparator is irreflexive,
\* asymmetric and transitive, and so is being ranked equal.
C40_StrictWeakOrdering ==
    \A a, b, c \in crossTableRows :
        /\ ~sortCrossTableDataByScore(a, a)
        /\ sortCrossTableDataByScore(a, b) => ~sortCrossTableDataByScore(b, a)
        /\ (sortCrossTableDataByScore(a, b) /\ sortCrossTableDataByScore(b, c))
              => sortCrossTableDataByScore(a, c)
        /\ (/\ ~sortCrossTableDataByScore(a, b) /\ ~sortCrossTableDataByScore(b, a)
            /\ ~sortCrossTableDataByScore(b, c) /\ ~sortCrossTableDataByScore(c, b))
              => (~sortCrossTableDataByScore(a, c) /\ ~sortCrossTableDataByScore(c, a))


-----------------------------------------------------------------------------
(* The schedule a round-robin announces and the games it starts *)

\* Round-robins of 2 to MaxPairingPlayers players, with and without the Berger
\* schedule and swapSides, with 1 or 2 games per encounter and 1 or 2 cycles.
MaxPairingPlayers == 4

PairingSettings ==
    {[Settings("round-robin", n, gpe, rm, berger, 1, TRUE, FALSE, 0, <<>>)
         EXCEPT !.swap = swap] :
        n \in 2 .. MaxPairingPlayers, gpe \in 1 .. 2, rm \in 1 .. 2,
        berger \in BOOLEAN, swap \in BOOLEAN}

InitPairings ==
    /\ cfg \in PairingSettings
    /\ tour = NewTournament(cfg)
    /\ gm = NewGameManager
    /\ hist = BergerHistory(cfg)
    /\ bgraph = Graph(0, {}) /\ bmatching = <<>> /\ bphase = "unused"
    /\ baugments = 0 /\ bassert = FALSE
    /\ adj = <<>> /\ chessGame = <<>>

SpecPairings == InitPairings /\ [][NextBerger]_vars

\* The Berger loop of getPairings (roundrobintournament.cpp 65-91).
RECURSIVE getPairingsBerger(_, _, _, _, _, _, _)
getPairingsBerger(c, final, table, bergerPtr, gameNumber, currentRound, pList) ==
    IF gameNumber >= final THEN pList
    ELSE LET count == rrCount(c)
             roundsPerCycle == rrGamesPerCycle(c) \div (count \div 2)
             turn == bergerPtr >= Len(table)
             shifted == [k \in 1 .. count |->
                            IF table[k] # count - 1
                            THEN (table[k] + (count \div 2)) % (count - 1)
                            ELSE table[k]]
             round1 == IF turn THEN currentRound + 1 ELSE currentRound
             at == IF ((round1 - 1) % roundsPerCycle) % 2 = 0 THEN 1 ELSE 0
             ptr1 == IF turn THEN 0 ELSE bergerPtr
             swapped == c.swap /\ (gameNumber \div rrGamesPerCycle(c)) % 2 = 1
         IN Strict(IF turn
                   THEN insertAt(removeAt(shifted, indexOf(shifted, count - 1)),
                                 at, count - 1)
                   ELSE table,
                   LAMBDA table1 :
                       LET white == IF swapped THEN table1[ptr1 + 2] ELSE table1[ptr1 + 1]
                           black == IF swapped THEN table1[ptr1 + 1] ELSE table1[ptr1 + 2]
                       IN IF white < c.n /\ black < c.n
                          THEN getPairingsBerger(c, final, table1, ptr1 + 2, gameNumber + 1,
                                                 round1, Append(pList, <<white, black>>))
                          ELSE getPairingsBerger(c, final, table1, ptr1 + 2, gameNumber,
                                                 round1, pList))

\* The loop of getPairings without the Berger schedule (lines 93-134).
RECURSIVE getPairingsPlain(_, _, _, _, _, _, _)
getPairingsPlain(c, final, topHalf, bottomHalf, pairNumber, gameNumber, pList) ==
    IF gameNumber >= final THEN pList
    ELSE LET turn == pairNumber >= Len(topHalf)
             top0 == insertAt(topHalf, 1, Head(bottomHalf))
             pn == IF turn THEN 0 ELSE pairNumber
         IN Strict(IF turn
                   THEN <<SubSeq(top0, 1, Len(top0) - 1),
                          Append(Tail(bottomHalf), top0[Len(top0)])>>
                   ELSE <<topHalf, bottomHalf>>,
                   LAMBDA halves :
                       LET white == halves[1][pn + 1]
                           black == halves[2][pn + 1]
                           games == [game \in 1 .. c.gpe |->
                                        IF c.swap /\ game % 2 = 0 THEN <<black, white>>
                                        ELSE <<white, black>>]
                       IN IF white < c.n /\ black < c.n
                          THEN getPairingsPlain(c, final, halves[1], halves[2], pn + 1,
                                                gameNumber + c.gpe, pList \o games)
                          ELSE getPairingsPlain(c, final, halves[1], halves[2], pn + 1,
                                                gameNumber, pList))

\* RoundRobinTournament::getPairings (lines 49-137), the players by their
\* index; final is finalGameCount().
getPairings(c, final) ==
    IF c.berger
    THEN getPairingsBerger(c, final, bergerTable(c), 0, 0, 1, <<>>)
    ELSE getPairingsPlain(c, final, [k \in 1 .. (rrCount(c) \div 2) |-> k - 1],
                          [k \in 1 .. (rrCount(c) \div 2) |-> rrCount(c) - k], 0, 0, <<>>)

\* C36: the i-th game started by a round-robin has the white and black players
\* of the i-th entry of getPairings().
C36_ScheduleIsPlayed ==
    (cfg.type = "round-robin" /\ tour.started) =>
        Strict(getPairings(cfg, tour.m_finalGameCount),
               LAMBDA pList :
                   \A i \in 1 .. Len(hist.games) :
                       i <= Len(pList) /\ hist.games[i] = pList[i])


-----------------------------------------------------------------------------
(* The rounds of a Swiss tournament *)

\* Swiss tournaments of 2 to MaxSwissPlayers players with one game per
\* encounter over MaxSwissRounds rounds: more rounds than there are opponents.
MaxSwissPlayers == 5
MaxSwissRounds == 4

SwissRunSettings ==
    {Settings("swiss-tcec", n, 1, MaxSwissRounds, FALSE, 1, TRUE, FALSE, 0, <<>>) :
        n \in 2 .. MaxSwissPlayers}

InitSwiss ==
    /\ cfg \in SwissRunSettings
    /\ tour = NewTournament(cfg)
    /\ gm = NewGameManager
    /\ hist = ScheduleHistory(cfg)
    /\ bgraph = Graph(0, {}) /\ bmatching = <<>> /\ bphase = "unused"
    /\ baugments = 0 /\ bassert = FALSE
    /\ adj = <<>> /\ chessGame = <<>>

SpecSwiss == InitSwiss /\ [][NextSchedule]_vars

\* The pairs of m_pairings that hold the player.
pairingsOf(p) ==
    {i \in 1 .. Len(tour.m_pairings) : p \in {tour.m_pairings[i][1], tour.m_pairings[i][2]}}

\* C35: generateRoundPairings ends without a failed Q_ASSERT, and in the
\* pairings of the round every player is in exactly one pair, but for the one
\* player with the BYE when the player count is odd.
C35_SwissRoundIsPaired ==
    (cfg.type = "swiss-tcec" /\ tour.started) =>
        /\ ~tour.pairingAssert
        /\ tour.m_ignoreRoundsForEncounters < tour.m_round
        /\ Len(tour.m_pairings) = cfg.n \div 2
        /\ \A i \in 1 .. Len(tour.m_pairings) : tour.m_pairings[i][1] # tour.m_pairings[i][2]
        /\ \A p \in Players(cfg) : Cardinality(pairingsOf(p)) <= 1
        /\ Cardinality({p \in Players(cfg) : pairingsOf(p) = {}}) = cfg.n % 2

\* A round of five players that could be paired only with rounds of the
\* history ignored.
C35_Witness ==
    /\ cfg.type = "swiss-tcec" /\ cfg.n = MaxSwissPlayers /\ tour.started
    /\ tour.m_round >= 4
    /\ tour.m_ignoreRoundsForEncounters > 0
    /\ ~tour.pairingAssert
    /\ Cardinality({p \in Players(cfg) : pairingsOf(p) = {}}) = 1


-----------------------------------------------------------------------------
(* enginematch.cpp: matchProgress of the tournament file *)

\* MaxProgressGames games are run, two at a time.
MaxProgressGames == 4

ProgressGames == 1 .. MaxProgressGames

\* The record onGameStarted appends for a game (lines 994-1001), as far as the
\* game gameNumber and the result go.
ProgressRecord(gameNumber) == [index |-> gameNumber, result |-> NoResult]

\* EngineMatch::onGameStarted (lines 948-1016) on the matchProgress list of a
\* tournament file that can be read and written.
matchOnGameStarted(pList, gameNumber) ==
    Append(IF Len(pList) >= gameNumber THEN SubSeq(pList, 1, gameNumber - 1) ELSE pList,
           ProgressRecord(gameNumber))

\* matchOnGameFinished that writes the result to the last entry.
matchOnGameFinished_LastEntry(pList, gameNumber, result) ==
    IF Len(pList) < gameNumber THEN pList
    ELSE [pList EXCEPT ![Len(pList)] = [@ EXCEPT !.result = result]]

\* EngineMatch::onGameFinished (lines 1024-1156) on the matchProgress list.
matchOnGameFinished(pList, gameNumber, result) ==
    IF Len(pList) < gameNumber THEN pList
    ELSE [pList EXCEPT ![gameNumber] = [@ EXCEPT !.result = result]]

\* The run keeps the file's matchProgress, the games the tournament has handed
\* to the game manager, the games whose gameStarted and gameFinished signals
\* EngineMatch has handled with the results they finished with, and whether
\* every gameStarted signal so far came in the order of the game numbers.
InitProgress ==
    /\ cfg = Settings("round-robin", 2, MaxProgressGames, 1, FALSE, 2, TRUE, FALSE, 0, <<>>)
    /\ hist = [matchProgress |-> <<>>, enqueued |-> 0, started |-> {},
               results |-> <<>>, finishOrder |-> <<>>, startsInOrder |-> TRUE]
    /\ tour = <<>> /\ gm = <<>>
    /\ bgraph = Graph(0, {}) /\ bmatching = <<>> /\ bphase = "unused"
    /\ baugments = 0 /\ bassert = FALSE
    /\ adj = <<>> /\ chessGame = <<>>

finishedGames == {hist.finishOrder[i] : i \in 1 .. Len(hist.finishOrder)}

\* Tournament::startGame hands the next game to the game manager, which has
\* room for it.
ProgressStartGame ==
    /\ hist.enqueued < MaxProgressGames
    /\ Cardinality((1 .. hist.enqueued) \ finishedGames) < cfg.conc
    /\ hist' = [hist EXCEPT !.enqueued = @ + 1]
    /\ UNCHANGED <<cfg, tour, gm, bvars, gvars>>

\* Tournament::gameStarted -> EngineMatch::onGameStarted.
ProgressGameStarted ==
    \E gameNumber \in (1 .. hist.enqueued) \ hist.started :
        /\ hist' = [hist EXCEPT
               !.matchProgress = matchOnGameStarted(@, gameNumber),
               !.started = @ \cup {gameNumber},
               !.startsInOrder = @ /\ (1 .. gameNumber - 1) \subseteq hist.started]
        /\ UNCHANGED <<cfg, tour, gm, bvars, gvars>>

\* Tournament::gameFinished -> EngineMatch::onGameFinished, for a game that
\* has started and ends with a winner or a draw.
ProgressGameFinished ==
    \E gameNumber \in hist.started \ finishedGames : \E result \in NormalResults :
        /\ hist' = [hist EXCEPT
               !.matchProgress = matchOnGameFinished(@, gameNumber, result),
               !.results = [k \in DOMAIN @ \cup {gameNumber} |->
                               IF k = gameNumber THEN result ELSE @[k]],
               !.finishOrder = Append(@, gameNumber)]
        /\ UNCHANGED <<cfg, tour, gm, bvars, gvars>>

NextProgress == ProgressStartGame \/ ProgressGameStarted \/ ProgressGameFinished

SpecProgress == InitProgress /\ [][NextProgress]_vars

\* The k-th entry of matchProgress is the record of game k, and every finished
\* game has its result in its own entry.
EntriesInPlace ==
    /\ \A k \in 1 .. Len(hist.matchProgress) : hist.matchProgress[k].index = k
    /\ \A k \in finishedGames :
          /\ k <= Len(hist.matchProgress)
          /\ hist.matchProgress[k].result = hist.results[k]

-----------------------------------------------------------------------------
(* chessgame.cpp: lockThread, unlockThread and pauseThread *)

\* MaxSlotCalls slot calls are posted to the game, besides pauseThread, by
\* players and the tournament; every other thread locks the game up to
\* MaxLocks times.
MaxSlotCalls == 3
MaxLocks == 2

\* The threads other than the game's own that read the game.
LockClients == {"gui", "match"}

\* pauseThread that does not wait for m_resumeSem.
pauseThread_NoWait(g) == [g EXCEPT !.m_pauseSem = @ + 1]

\* ChessGame::pauseThread up to the point where it blocks (line 683); the
\* game's thread is then inside the slot.
pauseThread(g) == [g EXCEPT !.m_pauseSem = @ + 1, !.pc = "pauseThread"]

\* ChessGame::lockThread called from another thread, up to the point where it
\* blocks (lines 689-692): the call of pauseThread is queued.
lockThread(g, c) ==
    [g EXCEPT !.queue = Append(@, "pauseThread"),
              !.client[c] = "lockThread",
              !.locks[c] = @ + 1]

\* ChessGame::unlockThread called from another thread (lines 698-701).
unlockThread(g, c) == [g EXCEPT !.m_resumeSem = @ + 1, !.client[c] = "idle"]

\* The game lives in its own thread, whose event loop runs the queued slot
\* calls one after the other; both semaphores start at 0.
InitLock ==
    /\ chessGame = [queue |-> <<>>, pc |-> "eventLoop", m_pauseSem |-> 0,
                    m_resumeSem |-> 0, slotCalls |-> 0, slotsRun |-> 0,
                    client |-> [c \in LockClients |-> "idle"],
                    locks |-> [c \in LockClients |-> 0]]
    /\ adj = <<>>
    /\ cfg = <<>> /\ tour = <<>> /\ gm = <<>> /\ hist = <<>>
    /\ bgraph = Graph(0, {}) /\ bmatching = <<>> /\ bphase = "unused"
    /\ baugments = 0 /\ bassert = FALSE

\* A signal of a player, a timer or the tournament queues the call of a slot
\* of the game.
LockSlotQueued ==
    /\ chessGame.slotCalls < MaxSlotCalls
    /\ chessGame' = [chessGame EXCEPT !.queue = Append(@, "slot"),
                                      !.slotCalls = @ + 1]
    /\ UNCHANGED <<adj, cfg, tour, gm, hist, bvars>>

\* The game's event loop runs the next queued slot.
LockSlotRun ==
    /\ chessGame.pc = "eventLoop"
    /\ chessGame.queue # <<>> /\ Head(chessGame.queue) = "slot"
    /\ chessGame' = [chessGame EXCEPT !.queue = Tail(@), !.slotsRun = @ + 1]
    /\ UNCHANGED <<adj, cfg, tour, gm, hist, bvars>>

\* The game's event loop runs a queued pauseThread.
LockPauseThread ==
    /\ chessGame.pc = "eventLoop"
    /\ chessGame.queue # <<>> /\ Head(chessGame.queue) = "pauseThread"
    /\ chessGame' = pauseThread([chessGame EXCEPT !.queue = Tail(@)])
    /\ UNCHANGED <<adj, cfg, tour, gm, hist, bvars>>

\* m_resumeSem.acquire() of pauseThread (line 684) goes through and the slot
\* returns to the event loop.
LockResumed ==
    /\ chessGame.pc = "pauseThread"
    /\ chessGame.m_resumeSem > 0
    /\ chessGame' = [chessGame EXCEPT !.m_resumeSem = @ - 1, !.pc = "eventLoop"]
    /\ UNCHANGED <<adj, cfg, tour, gm, hist, bvars>>

\* Another thread calls lockThread.
LockThreadCalled ==
    \E c \in LockClients :
        /\ chessGame.client[c] = "idle"
        /\ chessGame.locks[c] < MaxLocks
        /\ chessGame' = lockThread(chessGame, c)
        /\ UNCHANGED <<adj, cfg, tour, gm, hist, bvars>>

\* m_pauseSem.acquire() of lockThread (line 693) goes through and lockThread
\* returns.
LockThreadReturned ==
    \E c \in LockClients :
        /\ chessGame.client[c] = "lockThread"
        /\ chessGame.m_pauseSem > 0
        /\ chessGame' = [chessGame EXCEPT !.m_pauseSem = @ - 1,
                                          !.client[c] = "locked"]
        /\ UNCHANGED <<adj, cfg, tour, gm, hist, bvars>>

\* The thread that holds the lock calls unlockThread.
UnlockThreadCalled ==
    \E c \in LockClients :
        /\ chessGame.client[c] = "locked"
        /\ chessGame' = unlockThread(chessGame, c)
        /\ UNCHANGED <<adj, cfg, tour, gm, hist, bvars>>

NextLock ==
    \/ LockSlotQueued
    \/ LockSlotRun
    \/ LockPauseThread
    \/ LockResumed
    \/ LockThreadCalled
    \/ LockThreadReturned
    \/ UnlockThreadCalled

SpecLock == InitLock /\ [][NextLock]_vars

lockHolders == {c \in LockClients : chessGame.client[c] = "locked"}

\* C31: between the return of lockThread called from another thread and the
\* matching unlockThread the game's thread is inside pauseThread and runs no
\* other slot of the game.
C31_NoSlotWhileLocked ==
    [][lockHolders # {} =>
          /\ chessGame.pc = "pauseThread"
          /\ chessGame'.slotsRun = chessGame.slotsRun]_vars

\* A thread holds the lock while the call of a slot waits in the game's queue,
\* after the game has run slots before.
C31_Witness ==
    /\ lockHolders # {}
    /\ chessGame.slotsRun > 0
    /\ \E i \in 1 .. Len(chessGame.queue) : chessGame.queue[i] = "slot"


-----------------------------------------------------------------------------
(* The finished signal of a tournament run *)

\* C32 as stated: a run emits finished() at most once for its start(), however
\* the end of the last game, a stop() from outside, the stop the SPRT posts
\* and the stop after a crash without recovery interleave.
C32_FinishedAtMostOnce == tour.finishedEmitted <= 1


-----------------------------------------------------------------------------
(* A game whose players' moves are delivered after they were sent *)

\* Up to MaxInFlight moveMade signals wait for their delivery.
MaxInFlight == 2

\* The game of InitGame, with the moveMade signals on their way to the game,
\* the number of them that found no slot connected, and whether Q_ASSERT(m_gameInProgress) of onMoveMade has failed.
InitFlight ==
    /\ chessGame \in {NewChessGame(forced, TRUE, TRUE) : forced \in 0 .. MaxBook}
    /\ hist = [inFlight |-> <<>>, dropped |-> 0, assertFailed |-> FALSE]
    /\ adj = <<>>
    /\ cfg = <<>> /\ tour = <<>> /\ gm = <<>>
    /\ bgraph = Graph(0, {}) /\ bmatching = <<>> /\ bphase = "unused"
    /\ baugments = 0 /\ bassert = FALSE

\* ChessPlayer::emitMove (chessplayer.cpp 140-152) of a player that is in a
\* game: moveMade is emitted and waits for the game's thread.
FlightMoveEmitted ==
    \E sender \in Sides :
        /\ ~hist.assertFailed
        /\ chessGame.moveMadeConnected
        /\ chessGame.players[sender].m_gameInProgress
        /\ Len(hist.inFlight) < MaxInFlight
        /\ hist' = [hist EXCEPT !.inFlight = Append(@, sender)]
        /\ UNCHANGED <<cfg, tour, gm, bvars, gvars>>

\* The signal is delivered and ChessGame::onMoveMade runs. With the game not
\* in progress Q_ASSERT(m_gameInProgress) (line 402) ends the program in a
\* build with assertions and is no statement in a build without.
FlightMoveDelivered ==
    /\ ~hist.assertFailed
    /\ hist.inFlight # <<>>
    /\ chessGame.moveMadeConnected
    /\ chessGame.pgn.moves < MaxPlies
    /\ chessGame.warnings < MaxWarnings
    /\ \/ /\ ~chessGame.m_gameInProgress
          /\ hist' = [hist EXCEPT !.inFlight = Tail(@), !.assertFailed = TRUE]
          /\ UNCHANGED chessGame
       \/ /\ hist' = [hist EXCEPT !.inFlight = Tail(@)]
          /\ \E boardResult \in BoardResults : \E adjudicatorResult \in AdjudicatorResults :
                chessGame' = handled(gameOnMoveMade(chessGame, Head(hist.inFlight),
                                                    boardResult, adjudicatorResult),
                                     "moveMade", Head(hist.inFlight))
    /\ UNCHANGED <<cfg, tour, gm, bvars, adj>>

\* The signal arrives after finish() has disconnected the players.
FlightMoveDropped ==
    /\ hist.inFlight # <<>>
    /\ ~chessGame.moveMadeConnected
    /\ hist' = [hist EXCEPT !.inFlight = Tail(@), !.dropped = @ + 1]
    /\ UNCHANGED <<cfg, tour, gm, bvars, gvars>>

NextFlight ==
    \/ GameStart
    \/ GameStartGame
    \/ FlightMoveEmitted
    \/ FlightMoveDelivered
    \/ FlightMoveDropped
    \/ GameStop
    \/ GameFinish

SpecFlight == InitFlight /\ [][NextFlight]_vars

\* C33 as stated: a moveMade signal delivered after stop() has marked the game
\* finished changes neither the board, the move list nor the PGN, starts no
\* turn and does not fail the assertion of onMoveMade.
C33_LateMoveNotApplied ==
    [][chessGame.m_finished /\ hist.inFlight # <<>>
       /\ hist'.inFlight = Tail(hist.inFlight)
          => /\ chessGame'.boardPlies = chessGame.boardPlies
             /\ chessGame'.m_moves = chessGame.m_moves
             /\ chessGame'.pgn = chessGame.pgn
             /\ chessGame'.turns = chessGame.turns
             /\ ~hist'.assertFailed]_vars


-----------------------------------------------------------------------------
(* chessgame.cpp: pause, resume and startTurn *)

\* The game is followed for MaxTurns turns and MaxPauses calls of pause().
MaxTurns == 3
MaxPauses == 3

\* ChessGame::startTurn (lines 444-465): unless the game is paused, the side
\* to move is started, with go() or with a book move.
startTurn(g) ==
    IF g.m_paused THEN g
    ELSE [g EXCEPT !.starts[g.turn] = @ + 1]

\* ChessGame::pause (lines 793-796).
pause(g) == [g EXCEPT !.m_paused = TRUE]

\* ChessGame::resume (lines 798-805): the call of startTurn is queued.
resume(g) ==
    IF ~g.m_paused THEN g
    ELSE [g EXCEPT !.m_paused = FALSE, !.queuedStartTurn = @ + 1]

\* The game after startGame, which ends with startTurn() for the first turn
\* (line 927); pause() may have been called before. starts[t] counts how often
\* the side to move was started in turn t.
InitPause ==
    /\ \E paused \in BOOLEAN :
          chessGame = startTurn([m_paused |-> paused, turn |-> 0,
                                 starts |-> [t \in 0 .. MaxTurns |-> 0],
                                 queuedStartTurn |-> 0,
                                 pauses |-> IF paused THEN 1 ELSE 0])
    /\ adj = <<>>
    /\ cfg = <<>> /\ tour = <<>> /\ gm = <<>> /\ hist = <<>>
    /\ bgraph = Graph(0, {}) /\ bmatching = <<>> /\ bphase = "unused"
    /\ baugments = 0 /\ bassert = FALSE

\* pause() is called.
PauseCalled ==
    /\ chessGame.pauses < MaxPauses
    /\ chessGame' = [pause(chessGame) EXCEPT !.pauses = @ + 1]
    /\ UNCHANGED <<adj, tvars, bvars>>

\* resume() is called on a paused game.
ResumeCalled ==
    /\ chessGame.m_paused
    /\ chessGame' = resume(chessGame)
    /\ UNCHANGED <<adj, tvars, bvars>>

\* The startTurn call that resume() queued runs.
QueuedStartTurn ==
    /\ chessGame.queuedStartTurn > 0
    /\ chessGame' = startTurn([chessGame EXCEPT !.queuedStartTurn = @ - 1])
    /\ UNCHANGED <<adj, tvars, bvars>>

\* The side to move, once started, makes its move and the game goes on:
\* onMoveMade makes the move on the board and calls startTurn() for the next
\* turn (lines 429-436).
PauseMoveMade ==
    /\ chessGame.turn < MaxTurns
    /\ chessGame.starts[chessGame.turn] > 0
    /\ chessGame' = startTurn([chessGame EXCEPT !.turn = @ + 1])
    /\ UNCHANGED <<adj, tvars, bvars>>

NextPause == PauseCalled \/ ResumeCalled \/ QueuedStartTurn \/ PauseMoveMade

SpecPause == InitPause /\ [][NextPause]_vars

\* C34 as stated: in every turn the side to move is started exactly once,
\* whether pause() and resume() are called while it is thinking or the turn
\* was put off by a pause.
C34_TurnStartedOnce ==
    /\ \A t \in 0 .. chessGame.turn : chessGame.starts[t] <= 1
    /\ \A t \in 0 .. chessGame.turn - 1 : chessGame.starts[t] = 1

=============================================================================
